---- MODULE Spec2Model ----
(***************************************************************************)
(* Model of the HLA-Compass devkit API stub (src/api_stub).                *)
(*                                                                         *)
(* Four specifications share the variables below; each drives one part of  *)
(* the program and leaves the variables of the other parts at their        *)
(* initial values:                                                         *)
(*   Spec        the HTTP handlers of main.py, one request at a time       *)
(*   SpecStore   AtomicJsonStorage.read/write step by step, several        *)
(*               processes sharing the state directory, with crashes       *)
(*   SpecHealth  _cached_health_check with a clock and overlapping calls   *)
(*   SpecStartup the import-time path resolution and the lifespan startup  *)
(*                                                                         *)
(* Text is a sequence of one-character strings, so that the character and  *)
(* length checks of the schemas are computed, not assumed.                 *)
(* The slowapi rate limiter (a third-party decorator) is not modelled.     *)
(***************************************************************************)
EXTENDS Integers, Sequences, FiniteSets, TLC

VARIABLES
    \* ---- Spec: the handlers
    apiKey,       \* auth.DEVKIT_API_KEY
    template,     \* content of DEFAULT_MODULE_TEMPLATE (APP_ROOT/modules.json)
    modulesFile,  \* content of MODULE_STATE_PATH
    runsFile,     \* content of RUN_STATE_PATH
    prev,         \* both files as they were before the last request
    last,         \* the last request and its response
    created,      \* run id -> the record start_module_run last returned for it
    nruns,        \* number of runs started (bounded by MaxRuns)
    \* ---- SpecStartup: module import and lifespan startup
    senv,         \* the environment: state-file overrides and credentials
    links,        \* the symbolic links of the file system
    spc,          \* where startup is
    modulePath,   \* MODULE_STATE_PATH
    runPath,      \* RUN_STATE_PATH
    storages,     \* the AtomicJsonStorage objects built
    fsCreated,    \* the files and directories the program has created
    pool,         \* database.pool
    httpClient,   \* main.http_client
    \* ---- SpecStore: AtomicJsonStorage, several processes
    disk,         \* path -> the file at the path
    lockHolder,   \* path -> the process holding <path>.lock, or "free"
    pcS,          \* process -> where it is in read/write
    call,         \* process -> the call it is making
    tmpf,         \* process -> the temporary file of its write
    ret,          \* how the call that ended in the last step has ended
    waited,       \* process -> time units it has waited for the lock
    \* ---- SpecHealth: _cached_health_check
    clock,        \* datetime.utcnow(), in seconds
    real,         \* the real status of the relational store and the object store
    healthCache,  \* main._health_cache
    hpc,          \* call -> where it is in _cached_health_check
    hloc,         \* call -> its local variables
    hdone,        \* call -> how its last run returned
    hseq,         \* number of calls made (bounded by MaxCalls)
    \* ---- SpecProbe: check_postgres and _check_minio step by step
    \* (with pool and httpClient above)
    lphase,       \* where the lifespan of the app is
    ppc,          \* where check_postgres is
    plog,         \* what the running check_postgres found and did
    presult,      \* what check_postgres returned last
    mpc,          \* where _check_minio is
    mclient,      \* the client _check_minio uses
    mlog,         \* the outcomes of the attempts of the running _check_minio
    msleeps,      \* the waits between them
    mresult,      \* what _check_minio returned last
    \* ---- SpecConc: the handlers step by step, requests overlapping
    \* (with template, modulesFile and runsFile above)
    wpc,          \* worker -> where it is in its handler
    wreq,         \* worker -> the request it handles
    wloc,         \* worker -> the local variables of its handler
    returned,     \* the run records start_module_run has returned
    lastWrite,    \* the run record written in the last step, and the registry then
    nreq          \* number of requests made (bounded by MaxRequests)

apiVars == <<apiKey, template, modulesFile, runsFile, prev, last, created, nruns>>

startVars == <<senv, links, spc, modulePath, runPath, storages, fsCreated,
               pool, httpClient>>

storeVars == <<disk, lockHolder, pcS, call, tmpf, ret, waited>>

healthVars == <<clock, real, healthCache, hpc, hloc, hdone, hseq>>

probeVars == <<lphase, ppc, plog, presult, mpc, mclient, mlog, msleeps, mresult>>

concVars == <<wpc, wreq, wloc, returned, lastWrite, nreq>>

vars == <<apiVars, startVars, storeVars, healthVars, probeVars, concVars>>

\* What each specification leaves alone
notApi     == <<startVars, storeVars, healthVars, probeVars, concVars>>
notStartup == <<apiVars, storeVars, healthVars, probeVars, concVars>>
notStore   == <<apiVars, startVars, healthVars, probeVars, concVars>>
notHealth  == <<apiVars, startVars, storeVars, probeVars, concVars>>
\* SpecProbe moves pool and httpClient of the startup state
notProbe   == <<apiVars, storeVars, healthVars, concVars,
                senv, links, spc, modulePath, runPath, storages, fsCreated>>
\* SpecConc moves the two files of the handlers
notConc    == <<startVars, storeVars, healthVars, probeVars,
                apiKey, template, prev, last, created, nruns>>

(***************************************************************************)
(* Text                                                                    *)
(***************************************************************************)
None == <<"None">>          \* Python's None (no text has a 4-character element)

Lower == {"a","b","c","d","e","f","g","h","i","j","k","l","m",
          "n","o","p","q","r","s","t","u","v","w","x","y","z"}
Upper == {"A","B","C","D","E","F","G","H","I","J","K","L","M",
          "N","O","P","Q","R","S","T","U","V","W","X","Y","Z"}
Digit == {"0","1","2","3","4","5","6","7","8","9"}
Alnum == Lower \cup Upper \cup Digit

\* A character outside 7-bit ASCII (a header byte >= 0x80, decoded as latin-1).
NonAscii == {"0xE9"}

Repeat(c, n) == [i \in 1..n |-> c]

(***************************************************************************)
(* schemas.py                                                              *)
(***************************************************************************)
MaxIdLen == 128

\* (mutant) _SAFE_ID_RE.match without the anchors: only a safe prefix is required
SafeIdMatch_Prefix(value) ==
    Len(value) >= 1 /\ value[1] \in Alnum \cup {"_", "-"}

\* _SAFE_ID_RE.fullmatch(value): ^[a-zA-Z0-9_-]+$
SafeIdMatch(value) ==
    /\ Len(value) >= 1
    /\ \A i \in 1..Len(value) : value[i] \in Alnum \cup {"_", "-"}

DigitRun(s, a, b) == a <= b /\ \A t \in a..b : s[t] \in Digit

\* pattern ^\d+\.\d+\.\d+(-[a-zA-Z0-9.]+)?$ : d1, d2 are the positions of the
\* two dots, e the last digit of PATCH.
VersionMatch(s) ==
    \E d1 \in 1..Len(s), d2 \in 1..Len(s), e \in 1..Len(s) :
        /\ d1 < d2 /\ d2 < e
        /\ s[d1] = "." /\ s[d2] = "."
        /\ DigitRun(s, 1, d1 - 1)
        /\ DigitRun(s, d1 + 1, d2 - 1)
        /\ DigitRun(s, d2 + 1, e)
        /\ \/ e = Len(s)
           \/ /\ e + 2 <= Len(s)
              /\ s[e + 1] = "-"
              /\ \A t \in (e + 2)..Len(s) : s[t] \in Alnum \cup {"."}

\* Field(..., min_length=1, max_length=128) and validate_safe_id on name
NameOk(name) ==
    /\ name # None
    /\ Len(name) >= 1 /\ Len(name) <= MaxIdLen
    /\ SafeIdMatch(name)

\* Field(..., pattern=...) on version: required
VersionOk(version) == version # None /\ VersionMatch(version)

\* Field(None, max_length=128) and validate_safe_id on id: None passes
IdOk(id) == id = None \/ (Len(id) <= MaxIdLen /\ SafeIdMatch(id))

\* ModuleManifest(**body) raises no ValidationError
ModuleManifest(m) == NameOk(m.name) /\ VersionOk(m.version) /\ IdOk(m.id)

\* ModuleRunRequest(**body) raises no ValidationError
ModuleRunRequest(p) == p.module_id # None /\ SafeIdMatch(p.module_id)

(***************************************************************************)
(* auth.py                                                                 *)
(***************************************************************************)
IsAscii(s) == \A i \in 1..Len(s) : s[i] \notin NonAscii

\* secrets.compare_digest on two str: TypeError unless both are ASCII
compare_digest(a, b) ==
    IF IsAscii(a) /\ IsAscii(b) THEN (IF a = b THEN "equal" ELSE "differ")
    ELSE "TypeError"

\* verify_api_key: "ok" (admitted), 401, or 500 (the TypeError reaches
\* generic_exception_handler).  api_key = None when the header is absent.
verify_api_key(key, api_key) ==
    IF key = <<>> THEN "ok"
    ELSE IF api_key = None \/ api_key = <<>> THEN "401"
    ELSE CASE compare_digest(api_key, key) = "equal"  -> "ok"
           [] compare_digest(api_key, key) = "differ" -> "401"
           [] OTHER                                   -> "500"

(***************************************************************************)
(* Files of the sequential specification: a file is absent, holds text     *)
(* that json.loads rejects, or holds a JSON value (a list or a dict).      *)
(***************************************************************************)
Absent  == [kind |-> "absent"]
Corrupt == [kind |-> "corrupt"]
JList(s) == [kind |-> "list", value |-> s]
JDict(d) == [kind |-> "dict", value |-> d]

EmptyDict == [k \in {} |-> None]

\* AtomicJsonStorage.read(default) on a file, no other process running
StorageRead(file, default) ==
    IF file.kind \in {"absent", "corrupt"} THEN default ELSE file

\* _ensure_module_state: the content of MODULE_STATE_PATH after it
ensure_module_state(file, tmpl) ==
    IF file.kind # "absent" THEN file
    ELSE IF tmpl.kind = "list" THEN tmpl
    ELSE JList(<<>>)

\* _load_modules, after _ensure_module_state: the list the handler works on
load_modules(file) ==
    LET data == StorageRead(file, JList(<<>>))
    IN  IF data.kind = "list" THEN data.value ELSE <<>>

\* _load_runs
load_runs(file) ==
    LET data == StorageRead(file, JDict(EmptyDict))
    IN  IF data.kind = "dict" THEN data.value ELSE EmptyDict

\* (mutant) list.remove of the first entry with the id, not the filter
WithoutId_FirstOnly(modules, module_id) ==
    IF \E i \in 1..Len(modules) : modules[i].id = module_id
    THEN LET i == CHOOSE i \in 1..Len(modules) :
                     /\ modules[i].id = module_id
                     /\ \A j \in 1..(i - 1) : modules[j].id # module_id
         IN  SubSeq(modules, 1, i - 1) \o SubSeq(modules, i + 1, Len(modules))
    ELSE modules

\* (mutant) the filter forgotten: the list is appended to as it is
WithoutId_KeepAll(modules, module_id) == modules

\* [module for module in modules if module.get("id") != module_id]
WithoutId(modules, module_id) ==
    LET Keep(module) == module.id # module_id
    IN  SelectSeq(modules, Keep)

\* (mutant) any(module.get("id") for module in modules): the comparison dropped
HasId_AnyEntry(modules, module_id) ==
    \E i \in 1..Len(modules) : modules[i].id # None

\* any(module.get("id") == module_id for module in modules)
HasId(modules, module_id) ==
    \E i \in 1..Len(modules) : modules[i].id = module_id

(***************************************************************************)
(* Inputs of the handlers                                                  *)
(***************************************************************************)
MaxRuns == 1        \* runs started in one behaviour

Key      == <<"k", "1">>                 \* a configured DEVKIT_API_KEY
V100     == <<"1", ".", "0", ".", "0">>
V210rc   == <<"2", ".", "1", "0", ".", "0", "-", "r", "c", ".", "1">>
A        == <<"m", "-", "a">>
B        == <<"m", "_", "B", "2">>

Manifest(name, version, id) == [name |-> name, version |-> version, id |-> id]

ValidManifests ==
    { Manifest(A, V100, None), Manifest(B, V100, None), Manifest(B, V100, A),
      Manifest(A, V210rc, None), Manifest(A, V100, B) }

InvalidManifests ==
    { Manifest(<<".", ".", "/", "e", "v", "i", "l">>, V100, None),  \* "../evil"
      Manifest(A, None, None),                                      \* no version
      Manifest(A, <<"1", ".", "0">>, None),                         \* "1.0"
      Manifest(A, <<"1", ".", "0", ".", "0", "-">>, None),          \* "1.0.0-"
      Manifest(A, <<"v", "1", ".", "0", ".", "0">>, None),          \* "v1.0.0"
      Manifest(A, V100, <<"a", "/", "b">>),                         \* id "a/b"
      Manifest(A, V100, <<>>),                                      \* id ""
      Manifest(<<>>, V100, B),                                      \* name ""
      Manifest(Repeat("a", MaxIdLen + 1), V100, None),              \* 129 chars
      Manifest(A, V100, Repeat("b", MaxIdLen + 1)) }

Manifests == ValidManifests \cup InvalidManifests

Headers == { None, <<>>, Key, <<"k", "2">>, <<"k", "0xE9">> }

ModuleIds == { A, B, <<"m", "-", "c">>, <<".", ".", "/", "e">> }

\* A JSON object is the sequence of its items; {} is <<>>.
P1 == <<"n=1">>
RunRequest(module_id, parameters) ==
    [module_id |-> module_id, parameters |-> parameters]
RunRequests ==
    { RunRequest(i, None) : i \in ModuleIds } \cup { RunRequest(A, P1) }

RunIds == { "devkit-run-00000001", "devkit-run-00000002" }
GetIds == RunIds \cup { "devkit-run-ffffffff" }

\* The requests sent: every payload with the right key, and every header with
\* one payload that the schema accepts and one that it rejects.
RegisterInputs ==
    ({Key} \X Manifests)
        \cup (Headers \X { Manifest(A, V100, None), Manifest(A, None, None) })
DeleteInputs == ({Key} \X ModuleIds) \cup (Headers \X {A})
StartInputs  == ({Key} \X RunRequests) \cup (Headers \X {RunRequest(A, None)})

\* The bundled template is not part of the sources: any of these.
TemplateEntry == Manifest(A, V100, A)
Templates == { Absent, JDict(EmptyDict), JList(<<TemplateEntry>>),
               JList(<<TemplateEntry, Manifest(B, V210rc, A)>>) }
\* <<template, module-state file>> at startup
InitFiles == (Templates \X {Absent}) \cup { <<Absent, Corrupt>> }

(***************************************************************************)
(* main.py: the handlers, each a whole request                             *)
(***************************************************************************)
Response(op, header, req, status, resp) ==
    [op |-> op, header |-> header, req |-> req, status |-> status, resp |-> resp]

\* Every request: the files before it are remembered; startup is over
Before ==
    /\ prev' = [modules |-> modulesFile, runs |-> runsFile]
    /\ UNCHANGED notApi

\* x or y
Or(x, y) == IF x = None \/ x = <<>> THEN y ELSE x

\* (mutant) filtered.insert(0, manifest_data)
register_module_Prepend(file, tmpl, m) ==
    LET module_id     == Or(m.id, m.name)
        manifest_data == [m EXCEPT !.id = module_id]
        modules       == load_modules(ensure_module_state(file, tmpl))
    IN  JList(<<manifest_data>> \o WithoutId(modules, module_id))

\* register_module's body: the modules file after it
register_module(file, tmpl, m) ==
    LET module_id     == Or(m.id, m.name)
        manifest_data == [m EXCEPT !.id = module_id]
        modules       == load_modules(ensure_module_state(file, tmpl))
        filtered      == Append(WithoutId(modules, module_id), manifest_data)
    IN  JList(filtered)

RegisterModule(header, m) ==
    LET auth == verify_api_key(apiKey, header)
    IN  /\ IF auth # "ok"
           THEN /\ last' = Response("register", header, m, auth, None)
                /\ UNCHANGED modulesFile
           ELSE IF ~ModuleManifest(m)
           THEN /\ last' = Response("register", header, m, "422", None)
                /\ UNCHANGED modulesFile
           ELSE /\ modulesFile' = register_module(modulesFile, template, m)
                /\ last' = Response("register", header, m, "200",
                                    [m EXCEPT !.id = Or(m.id, m.name)])
        /\ Before
        /\ UNCHANGED <<apiKey, template, runsFile, created, nruns>>

\* delete_module's body
DeleteModule(header, module_id) ==
    LET auth    == verify_api_key(apiKey, header)
        req     == [module_id |-> module_id]
        file1   == ensure_module_state(modulesFile, template)
        modules == load_modules(file1)
        updated == WithoutId(modules, module_id)
    IN  /\ IF auth # "ok"
           THEN /\ last' = Response("delete", header, req, auth, None)
                /\ UNCHANGED modulesFile
           ELSE IF Len(updated) = Len(modules)
           THEN /\ last' = Response("delete", header, req, "404", None)
                /\ modulesFile' = file1
           ELSE /\ modulesFile' = JList(updated)
                /\ last' = Response("delete", header, req, "200", module_id)
        /\ Before
        /\ UNCHANGED <<apiKey, template, runsFile, created, nruns>>

\* The record start_module_run stores under run_id
RunRecord(run_id, p, now) ==
    [runId      |-> run_id,
     moduleId   |-> p.module_id,
     status     |-> "completed",
     parameters |-> Or(p.parameters, <<>>),
     result     |-> [status  |-> "success",
                     summary |-> [message |-> "Devkit stub executed successfully"]],
     createdAt  |-> now]

\* (mutant) the record is built but never put into the mapping that is saved
Put_NotStored(runs, run_id, record) == runs

\* runs[run_id] = record
Put(runs, run_id, record) ==
    [k \in DOMAIN runs \cup {run_id} |-> IF k = run_id THEN record ELSE runs[k]]

\* start_module_run; run_id is uuid4().hex[:8], createdAt the clock reading
StartModuleRun(header, p, run_id) ==
    LET auth    == verify_api_key(apiKey, header)
        file1   == ensure_module_state(modulesFile, template)
        modules == load_modules(file1)
        runs    == load_runs(runsFile)
        record  == RunRecord(run_id, p, nruns + 1)
    IN  /\ nruns < MaxRuns
        /\ IF auth # "ok"
           THEN /\ last' = Response("start", header, p, auth, None)
                /\ UNCHANGED <<modulesFile, runsFile, created, nruns>>
           ELSE IF ~ModuleRunRequest(p)
           THEN /\ last' = Response("start", header, p, "422", None)
                /\ UNCHANGED <<modulesFile, runsFile, created, nruns>>
           ELSE IF ~HasId(modules, p.module_id)
           THEN /\ last' = Response("start", header, p, "404", None)
                /\ modulesFile' = file1
                /\ UNCHANGED <<runsFile, created, nruns>>
           ELSE /\ modulesFile' = file1
                /\ runsFile' = JDict(Put(runs, run_id, record))
                /\ created' = Put(created, run_id, record)
                /\ nruns' = nruns + 1
                /\ last' = Response("start", header, p, "200", record)
        /\ Before
        /\ UNCHANGED <<apiKey, template>>

\* get_module_run
GetModuleRun(run_id) ==
    LET runs == load_runs(runsFile)
        req  == [run_id |-> run_id]
    IN  /\ IF run_id \in DOMAIN runs
           THEN last' = Response("get", None, req, "200", runs[run_id])
           ELSE last' = Response("get", None, req, "404", None)
        /\ Before
        /\ UNCHANGED <<apiKey, template, modulesFile, runsFile, created, nruns>>

\* list_modules
ListModules ==
    LET file1 == ensure_module_state(modulesFile, template)
    IN  /\ modulesFile' = file1
        /\ last' = Response("list", None, [none |-> None], "200", load_modules(file1))
        /\ Before
        /\ UNCHANGED <<apiKey, template, runsFile, created, nruns>>

NoRequest == Response("none", None, [none |-> None], "none", None)

InitApi ==
    /\ apiKey \in { <<>>, Key }
    /\ \E f \in InitFiles : template = f[1] /\ modulesFile = f[2]
    /\ runsFile = Absent
    /\ prev = [modules |-> modulesFile, runs |-> runsFile]
    /\ last = NoRequest
    /\ created = EmptyDict
    /\ nruns = 0

(***************************************************************************)
(* main.py, import time: _safe_path.  A path is the sequence of its        *)
(* segments below the root; a configured value is absolute or relative.    *)
(***************************************************************************)
STATE_DIR == <<"var", "lib", "devkit">>

UserPath(abs, segs) == [abs |-> abs, segs |-> segs]

\* base / user_path: an absolute right operand replaces the left one
Join(base, user_path) ==
    IF user_path.abs THEN user_path.segs ELSE base \o user_path.segs

Parent(path) == IF path = <<>> THEN <<>> ELSE SubSeq(path, 1, Len(path) - 1)

\* Path.resolve(): "." dropped, ".." to the parent (the root is its own
\* parent), a symbolic link replaced by its (resolved) target.
RECURSIVE ResolveFrom(_, _, _)
ResolveFrom(done, rest, lnk) ==
    IF rest = <<>> THEN done
    ELSE LET seg  == Head(rest)
             next == IF seg = "." THEN done
                     ELSE IF seg = ".." THEN Parent(done)
                     ELSE IF Append(done, seg) \in DOMAIN lnk
                          THEN lnk[Append(done, seg)]
                          ELSE Append(done, seg)
         IN  ResolveFrom(next, Tail(rest), lnk)

Resolve(path, lnk) == ResolveFrom(<<>>, path, lnk)

\* Path.is_relative_to: segment-wise prefix
IsRelativeTo(path, base) ==
    Len(base) <= Len(path) /\ SubSeq(path, 1, Len(base)) = base

Traversal == <<"ValueError: Path traversal detected">>

\* (mutant) the containment check made on the joined path before .resolve()
safe_path_Unresolved(base, user_path, lnk) ==
    IF ~IsRelativeTo(Join(base, user_path), base) THEN Traversal
    ELSE Resolve(Join(base, user_path), lnk)

\* _safe_path
safe_path(base, user_path, lnk) ==
    LET resolved == Resolve(Join(base, user_path), lnk)
    IN  IF ~IsRelativeTo(resolved, Resolve(base, lnk)) THEN Traversal
        ELSE resolved

\* (mutant) only the database password is checked
validate_credentials_DbOnly(db_password, s3_secret_key) ==
    IF db_password \in {"postgres", "minioadmin", "CHANGE_ME_INSECURE",
                        "password", "admin"}
    THEN "RuntimeError: Insecure DEVKIT_DB_PASSWORD" ELSE "ok"

\* _validate_credentials
validate_credentials(db_password, s3_secret_key) ==
    LET insecure == {"postgres", "minioadmin", "CHANGE_ME_INSECURE",
                     "password", "admin"}
    IN  IF db_password \in insecure
        THEN "RuntimeError: Insecure DEVKIT_DB_PASSWORD"
        ELSE IF s3_secret_key \in insecure
        THEN "RuntimeError: Insecure DEVKIT_S3_SECRET_KEY"
        ELSE "ok"

\* HLA_DEVKIT_MODULE_STATE / HLA_DEVKIT_RUN_STATE values
ModuleStateValues ==
    { UserPath(FALSE, <<"modules.json">>),                      \* the default
      UserPath(FALSE, <<"..", "evil.json">>),
      UserPath(FALSE, <<"sub", "..", "m.json">>),
      UserPath(FALSE, <<"sub", "..", "..", "evil.json">>),
      UserPath(FALSE, <<"link", "m.json">>),
      UserPath(FALSE, <<".">>),
      UserPath(TRUE,  <<"etc", "passwd">>),
      UserPath(TRUE,  <<"var", "lib", "devkit", "abs.json">>),
      UserPath(TRUE,  <<"var", "lib", "devkit", "..", "devkit2", "m.json">>) }
RunStateValues ==
    { UserPath(FALSE, <<"runs.json">>),                         \* the default
      UserPath(FALSE, <<"..", "..", "..", "..", "runs.json">>),
      UserPath(FALSE, <<"link", "..", "devkit", "runs.json">>),
      UserPath(TRUE,  <<"var", "lib", "devkit", ".", "r", "runs.json">>) }

\* DEVKIT_DB_PASSWORD (default "postgres") and DEVKIT_S3_SECRET_KEY (default "")
Passwords ==
    { "postgres", "minioadmin", "CHANGE_ME_INSECURE", "password", "admin",
      "", "safe-pass", "Postgres" }

\* The file system: no link, or STATE_DIR/link pointing out of STATE_DIR
LinkSets ==
    { [p \in {} |-> <<>>],
      [p \in { STATE_DIR \o <<"link">> } |-> <<"srv", "other">>] }

NoPath == <<"unset">>

LockOf(path) == Append(Parent(path), path[Len(path)] \o ".lock")

InitStartup ==
    /\ senv \in [module_state : ModuleStateValues, run_state : RunStateValues,
                 db_password : Passwords, s3_secret_key : Passwords]
    /\ links \in LinkSets
    /\ spc = "import"
    /\ modulePath = NoPath
    /\ runPath = NoPath
    /\ storages = {}
    /\ fsCreated = {}
    /\ pool = "none"
    /\ httpClient = "none"

\* STATE_DIR.mkdir(parents=True, exist_ok=True)
ImportMkdir ==
    /\ spc = "import"
    /\ fsCreated' = fsCreated \cup { Resolve(STATE_DIR, links) }
    /\ spc' = "module_path"
    /\ UNCHANGED <<senv, links, modulePath, runPath, storages, pool, httpClient>>
    /\ UNCHANGED notStartup

\* MODULE_STATE_PATH = _safe_path(STATE_DIR, ...)
ImportModulePath ==
    LET r == safe_path(STATE_DIR, senv.module_state, links)
    IN  /\ spc = "module_path"
        /\ IF r = Traversal
           THEN spc' = "traversal_error" /\ UNCHANGED modulePath
           ELSE spc' = "run_path" /\ modulePath' = r
        /\ UNCHANGED <<senv, links, runPath, storages, fsCreated, pool, httpClient>>
        /\ UNCHANGED notStartup

\* RUN_STATE_PATH = _safe_path(STATE_DIR, ...)
ImportRunPath ==
    LET r == safe_path(STATE_DIR, senv.run_state, links)
    IN  /\ spc = "run_path"
        /\ IF r = Traversal
           THEN spc' = "traversal_error" /\ UNCHANGED runPath
           ELSE spc' = "storages" /\ runPath' = r
        /\ UNCHANGED <<senv, links, modulePath, storages, fsCreated, pool, httpClient>>
        /\ UNCHANGED notStartup

\* modules_storage = AtomicJsonStorage(...); runs_storage = AtomicJsonStorage(...)
ImportStorages ==
    /\ spc = "storages"
    /\ storages' = { [path |-> modulePath, lock |-> LockOf(modulePath)],
                     [path |-> runPath, lock |-> LockOf(runPath)] }
    /\ spc' = "imported"
    /\ UNCHANGED <<senv, links, modulePath, runPath, fsCreated, pool, httpClient>>
    /\ UNCHANGED notStartup

\* lifespan: _validate_credentials()
LifespanValidate ==
    /\ spc = "imported"
    /\ IF validate_credentials(senv.db_password, senv.s3_secret_key) = "ok"
       THEN spc' = "init_pool"
       ELSE spc' = "credentials_error"
    /\ UNCHANGED <<senv, links, modulePath, runPath, storages, fsCreated, pool,
                   httpClient>>
    /\ UNCHANGED notStartup

\* lifespan: await init_pool(); a failing pool.open() is only logged
LifespanInitPool ==
    /\ spc = "init_pool"
    /\ pool' \in {"open", "closed"}
    /\ spc' = "http_client"
    /\ UNCHANGED <<senv, links, modulePath, runPath, storages, fsCreated,
                   httpClient>>
    /\ UNCHANGED notStartup

\* lifespan: http_client = httpx.AsyncClient(...); yield
LifespanHttpClient ==
    /\ spc = "http_client"
    /\ httpClient' = "open"
    /\ spc' = "serving"
    /\ UNCHANGED <<senv, links, modulePath, runPath, storages, fsCreated, pool>>
    /\ UNCHANGED notStartup

\* While serving, the first write through a storage creates its lock file and
\* the target (AtomicJsonStorage.write), wherever the operating system
\* resolves the stored path to.
ServeFirstWrite ==
    /\ spc = "serving"
    /\ \E st \in storages :
          /\ Resolve(st.path, links) \notin fsCreated
          /\ fsCreated' = fsCreated \cup
                { Resolve(st.path, links), Resolve(st.lock, links) }
    /\ UNCHANGED <<senv, links, spc, modulePath, runPath, storages, pool,
                   httpClient>>
    /\ UNCHANGED notStartup

(***************************************************************************)
(* storage.py: AtomicJsonStorage.read and .write, one step per statement,  *)
(* run by processes that share the state directory.  A file's text is the  *)
(* sequence of the chunks written to it; json.dump writes a document in    *)
(* two chunks, and json.loads accepts exactly the complete documents.      *)
(***************************************************************************)
Procs == {"p1", "p2"}
Paths == {"modules.json", "runs.json"}
Old   == "old"                 \* the document a file holds at the start
New   == "new"                 \* the document the writes store
Docs  == {Old, New}
Unserializable == "obj"        \* data json.dump raises TypeError on, mid-way
Default == "default"

NoFile == [exists |-> FALSE, text |-> <<>>]
FileOf(text) == [exists |-> TRUE, text |-> text]

Dump(data) == << <<data, "head">>, <<data, "tail">> >>

\* Texts that are no document: a document cut short, and bytes that are not
\* UTF-8
Truncated == << Dump(Old)[1] >>
Undecodable == << <<"0xFF", "bytes">> >>

\* path.read_text(encoding="utf-8") raises no UnicodeDecodeError
Decodable(text) == \A i \in 1..Len(text) : text[i][1] # "0xFF"

\* json.loads(text): the document, or JSONDecodeError
Loads(text) ==
    IF \E d \in Docs : text = Dump(d)
    THEN (CHOOSE d \in Docs : text = Dump(d))
    ELSE "JSONDecodeError"

\* (mutant) the lock file is opened but never locked
CanAcquire_NoCheck(holder) == TRUE

\* FileLock.acquire succeeds: nobody holds <path>.lock
CanAcquire(holder) == holder = "free"

lock_timeout == 10

\* (mutant) FileLock(path) without a timeout: acquire waits without limit
TimedOut_Never(w) == FALSE

\* FileLock(f"{path}.lock", timeout=10): the wait has lasted the timeout
TimedOut(w) == w >= lock_timeout

\* (mutant) json.dump writes into the target itself, opened for writing
WriteDest_InPlace(path) == "target"

\* Where json.dump writes: the mkstemp file in the target's directory
WriteDest(path) == "tmp"

\* How a call ended: kind, the path of its storage, the value returned (the
\* data concerned, or where the process died), and the file text a read was
\* given (or the text of the temporary file of a process that died)
Returned(kind, path, value, raw) ==
    [kind |-> kind, path |-> path, value |-> value, raw |-> raw]
NoOutcome == Returned("none", "none", "none", NoFile)
\* A call in progress: with the outcome it will end in once the lock is
\* released, and the target file as it was when the call took the lock
NoCall == [op |-> "none", path |-> "none", data |-> "none", out |-> NoOutcome,
           before |-> NoFile]

\* (mutant) the except branch does not unlink
Unlinked_Kept(file) == file

\* os.unlink(tmp_path)
Unlinked(file) == NoFile

InitStore ==
    /\ disk \in [Paths -> {NoFile, FileOf(Dump(Old))}]
    /\ lockHolder = [f \in Paths |-> "free"]
    /\ pcS = [p \in Procs |-> "idle"]
    /\ call = [p \in Procs |-> NoCall]
    /\ tmpf = [p \in Procs |-> NoFile]
    /\ ret = NoOutcome
    /\ waited = [p \in Procs |-> 0]

\* storage.read(default) is called
CallRead(p, f) ==
    /\ pcS[p] = "idle"
    /\ call' = [call EXCEPT ![p] = [op |-> "read", path |-> f, data |-> "none",
                                 out |-> NoOutcome, before |-> NoFile]]
    /\ pcS' = [pcS EXCEPT ![p] = "acquire"]
    /\ ret' = NoOutcome
    /\ UNCHANGED <<disk, lockHolder, tmpf>>
    /\ UNCHANGED <<waited, notStore>>

\* storage.write(data) is called
CallWrite(p, f, data) ==
    /\ pcS[p] = "idle"
    /\ call' = [call EXCEPT ![p] = [op |-> "write", path |-> f, data |-> data,
                                 out |-> NoOutcome, before |-> NoFile]]
    /\ pcS' = [pcS EXCEPT ![p] = "acquire"]
    /\ ret' = NoOutcome
    /\ UNCHANGED <<disk, lockHolder, tmpf>>
    /\ UNCHANGED <<waited, notStore>>

\* with self.lock: the lock is acquired
Acquire(p) ==
    /\ pcS[p] = "acquire"
    /\ CanAcquire(lockHolder[call[p].path])
    /\ lockHolder' = [lockHolder EXCEPT ![call[p].path] = p]
    /\ pcS' = [pcS EXCEPT ![p] = IF call[p].op = "read" THEN "r_exists"
                                 ELSE "w_mkstemp"]
    /\ call' = [call EXCEPT ![p].before = disk[call[p].path]]
    /\ waited' = [waited EXCEPT ![p] = 0]
    /\ ret' = NoOutcome
    /\ UNCHANGED <<disk, tmpf>>
    /\ UNCHANGED notStore

\* with self.lock: the lock is not free at this poll, a time unit passes
LockWait(p) ==
    /\ pcS[p] = "acquire"
    /\ ~CanAcquire(lockHolder[call[p].path])
    /\ ~TimedOut(waited[p])
    /\ waited' = [waited EXCEPT ![p] = @ + 1]
    /\ ret' = NoOutcome
    /\ UNCHANGED <<disk, lockHolder, pcS, call, tmpf>>
    /\ UNCHANGED notStore

\* with self.lock: FileLock(timeout=10) raises Timeout when the lock is
\* still held by another after the timeout
LockTimeout(p) ==
    /\ pcS[p] = "acquire"
    /\ lockHolder[call[p].path] \notin {"free", p}
    /\ TimedOut(waited[p])
    /\ ret' = Returned("Timeout", call[p].path, call[p].data, NoFile)
    /\ pcS' = [pcS EXCEPT ![p] = "idle"]
    /\ call' = [call EXCEPT ![p] = NoCall]
    /\ waited' = [waited EXCEPT ![p] = 0]
    /\ UNCHANGED <<disk, lockHolder, tmpf>>
    /\ UNCHANGED notStore

\* read: if not self.path.exists(): return default
ReadExists(p) ==
    /\ pcS[p] = "r_exists"
    /\ IF disk[call[p].path].exists
       THEN pcS' = [pcS EXCEPT ![p] = "r_load"] /\ UNCHANGED call
       ELSE /\ pcS' = [pcS EXCEPT ![p] = "release"]
            /\ call' = [call EXCEPT ![p].out =
                            Returned("read", call[p].path, Default, NoFile)]
    /\ ret' = NoOutcome
    /\ UNCHANGED <<disk, lockHolder, tmpf>>
    /\ UNCHANGED <<waited, notStore>>

\* read: json.loads(self.path.read_text()), default on JSONDecodeError; a
\* UnicodeDecodeError of read_text is not caught
ReadLoad(p) ==
    LET raw    == disk[call[p].path]
        parsed == Loads(raw.text)
    IN  /\ pcS[p] = "r_load"
        /\ call' = [call EXCEPT ![p].out =
                        IF ~Decodable(raw.text)
                        THEN Returned("read raised", call[p].path,
                                      "UnicodeDecodeError", raw)
                        ELSE Returned("read", call[p].path,
                                      IF parsed = "JSONDecodeError" THEN Default
                                      ELSE parsed,
                                      raw)]
        /\ ret' = NoOutcome
        /\ pcS' = [pcS EXCEPT ![p] = "release"]
        /\ UNCHANGED <<disk, lockHolder, tmpf>>
        /\ UNCHANGED <<waited, notStore>>

\* write: parent.mkdir; tempfile.mkstemp(dir=parent, prefix=name, suffix=".tmp")
WriteMkstemp(p) ==
    /\ pcS[p] = "w_mkstemp"
    /\ tmpf' = [tmpf EXCEPT ![p] = FileOf(<<>>)]
    /\ pcS' = [pcS EXCEPT ![p] = "w_dump"]
    /\ ret' = NoOutcome
    /\ UNCHANGED <<disk, lockHolder, call>>
    /\ UNCHANGED <<waited, notStore>>

\* write: json.dump(data, handle), one chunk; the with-block closes the file
\* after the last chunk; unserializable data raises after the first chunk
WriteDump(p) ==
    LET f     == call[p].path
        data  == call[p].data
        k     == IF pcS[p] = "w_dump" THEN 1 ELSE 2
        sofar == IF WriteDest(f) = "tmp" THEN tmpf[p].text ELSE disk[f].text
        text  == IF k = 1 THEN <<Dump(data)[1]>> ELSE Append(sofar, Dump(data)[2])
    IN  /\ pcS[p] \in {"w_dump", "w_dump2"}
        /\ IF k = 2 /\ data = Unserializable
           THEN /\ pcS' = [pcS EXCEPT ![p] = "w_except"]
                /\ UNCHANGED <<disk, tmpf>>
           ELSE /\ pcS' = [pcS EXCEPT ![p] = IF k = 1 THEN "w_dump2" ELSE "w_replace"]
                /\ IF WriteDest(f) = "tmp"
                   THEN tmpf' = [tmpf EXCEPT ![p] = FileOf(text)] /\ UNCHANGED disk
                   ELSE disk' = [disk EXCEPT ![f] = FileOf(text)] /\ UNCHANGED tmpf
        /\ ret' = NoOutcome
        /\ UNCHANGED <<lockHolder, call>>
        /\ UNCHANGED <<waited, notStore>>

\* write: os.replace(tmp_path, self.path), atomic
WriteReplace(p) ==
    LET f == call[p].path
    IN  /\ pcS[p] = "w_replace"
        /\ IF WriteDest(f) = "tmp"
           THEN disk' = [disk EXCEPT ![f] = tmpf[p]]
           ELSE UNCHANGED disk
        /\ tmpf' = [tmpf EXCEPT ![p] = NoFile]
        /\ call' = [call EXCEPT ![p].out =
                        Returned("written", call[p].path, call[p].data, NoFile),
                                ![p].before = NoFile]
        /\ ret' = NoOutcome
        /\ pcS' = [pcS EXCEPT ![p] = "release"]
        /\ UNCHANGED lockHolder
        /\ UNCHANGED <<waited, notStore>>

\* write: os.replace raises (OSError)
WriteReplaceFails(p) ==
    /\ pcS[p] = "w_replace"
    /\ pcS' = [pcS EXCEPT ![p] = "w_except"]
    /\ ret' = NoOutcome
    /\ UNCHANGED <<disk, lockHolder, call, tmpf>>
    /\ UNCHANGED <<waited, notStore>>

\* write: except Exception: os.unlink(tmp_path); raise
WriteExcept(p) ==
    /\ pcS[p] = "w_except"
    /\ tmpf' = [tmpf EXCEPT ![p] = Unlinked(tmpf[p])]
    /\ call' = [call EXCEPT ![p].out =
                    Returned("raised", call[p].path, call[p].data, call[p].before)]
    /\ ret' = NoOutcome
    /\ pcS' = [pcS EXCEPT ![p] = "release"]
    /\ UNCHANGED <<disk, lockHolder>>
    /\ UNCHANGED <<waited, notStore>>

\* leaving the with-block: the lock is released and the call ends
Release(p) ==
    /\ pcS[p] = "release"
    /\ lockHolder' = [lockHolder EXCEPT ![call[p].path] = "free"]
    /\ pcS' = [pcS EXCEPT ![p] = "idle"]
    /\ call' = [call EXCEPT ![p] = NoCall]
    /\ ret' = call[p].out
    /\ UNCHANGED <<disk, tmpf>>
    /\ UNCHANGED <<waited, notStore>>

\* The process dies inside a call: the operating system drops its lock, and a
\* new process takes its place.  (Its temporary file stays in the directory
\* under a name nothing else uses; the new process has none.)  What is
\* recorded: where it died and the text its temporary file held.
Crash(p) ==
    /\ pcS[p] # "idle"
    /\ lockHolder' = [f \in Paths |-> IF lockHolder[f] = p THEN "free"
                                      ELSE lockHolder[f]]
    /\ ret' = Returned("crashed", call[p].path, pcS[p], tmpf[p])
    /\ tmpf' = [tmpf EXCEPT ![p] = NoFile]
    /\ pcS' = [pcS EXCEPT ![p] = "idle"]
    /\ call' = [call EXCEPT ![p] = NoCall]
    /\ waited' = [waited EXCEPT ![p] = 0]
    /\ UNCHANGED disk
    /\ UNCHANGED notStore

\* No storage call is running: what the other specifications leave here
StoreIdle ==
    /\ disk = [f \in Paths |-> NoFile]
    /\ lockHolder = [f \in Paths |-> "free"]
    /\ pcS = [p \in Procs |-> "idle"]
    /\ call = [p \in Procs |-> NoCall]
    /\ tmpf = [p \in Procs |-> NoFile]
    /\ ret = NoOutcome
    /\ waited = [p \in Procs |-> 0]

NextStore ==
    \/ \E p \in Procs, f \in Paths : CallRead(p, f)
    \/ \E p \in Procs, f \in Paths, d \in {New, Unserializable} :
          CallWrite(p, f, d)
    \/ \E p \in Procs : Acquire(p)
    \/ \E p \in Procs : LockWait(p)
    \/ \E p \in Procs : LockTimeout(p)
    \/ \E p \in Procs : ReadExists(p)
    \/ \E p \in Procs : ReadLoad(p)
    \/ \E p \in Procs : WriteMkstemp(p)
    \/ \E p \in Procs : WriteDump(p)
    \/ \E p \in Procs : WriteReplace(p)
    \/ \E p \in Procs : WriteReplaceFails(p)
    \/ \E p \in Procs : WriteExcept(p)
    \/ \E p \in Procs : Release(p)
    \/ \E p \in Procs : Crash(p)


(***************************************************************************)
(* main.py: _cached_health_check, check_postgres, _check_minio             *)
(* One asyncio event loop: a call runs without interruption between two    *)
(* awaits, so each action is the code from one await to the next.  The     *)
(* clock and the real status of the two services move freely in between.   *)
(***************************************************************************)
MaxTime == 5
MaxCalls == 3

health_cache_ttl == 5
MaxAttempts == 3

HCalls == {"h1", "h2"}

\* Whether each service is up
RealStates == [postgres : {"ok", "error"}, minio : {"ok", "error"}]

\* How an attempt on a failing object store fails: the connection is not
\* made (httpx.ConnectError / TimeoutException) or an error status comes back
Failures == {"connect", "http_status"}

Ok == <<"ok">>
PgError == <<"error", "Database connection failed">>
MinioError == <<"error", "Minio health check failed">>
NoResult == [postgres |-> None, minio |-> None]

EmptyCache == [k \in {} |-> NoResult]
CacheOf(data, timestamp) ==
    [k \in {"health"} |-> [data |-> data, timestamp |-> timestamp]]

\* (mutant) the cached snapshot is never used
Fresh_Never(now, cache) == FALSE

\* cached and now - timestamp < _health_cache_ttl
Fresh(now, cache) ==
    /\ "health" \in DOMAIN cache
    /\ now - cache["health"].timestamp < health_cache_ttl

\* The age of the cached snapshot at "now", -1 when there is none
AgeOf(now, cache) ==
    IF "health" \in DOMAIN cache THEN now - cache["health"].timestamp ELSE -1

\* The snapshot the services would give if probed now
Current(r) == [postgres |-> IF r.postgres = "ok" THEN Ok ELSE PgError,
               minio |-> IF r.minio = "ok" THEN Ok ELSE MinioError]

\* (mutant) the object store is not looked at
system_ready_PostgresOnly(services) ==
    IF Head(services.postgres) = "ok" THEN "ready" ELSE "degraded"

\* system_ready: the status derived from the snapshot
system_ready(services) ==
    IF Head(services.postgres) = "ok" /\ Head(services.minio) = "ok"
    THEN "ready" ELSE "degraded"

NoLocals == [n |-> 0, now |-> 0, age |-> -1, postgres |-> None, attempt |-> 0]
\* n: which call it was; age: the age of the cached snapshot it found;
\* probes: attempts made on the services; status: what system_ready makes
\* of the snapshot
NoDone == [n |-> 0, now |-> 0, age |-> -1, result |-> NoResult, probes |-> 0,
           status |-> "none"]

InitHealth ==
    /\ clock = 0
    /\ real \in RealStates
    /\ healthCache = EmptyCache
    /\ hpc = [c \in HCalls |-> "idle"]
    /\ hloc = [c \in HCalls |-> NoLocals]
    /\ hdone = [c \in HCalls |-> NoDone]
    /\ hseq = 0

Tick ==
    /\ clock < MaxTime
    /\ clock' = clock + 1
    /\ UNCHANGED <<real, healthCache, hpc, hloc, hdone, hseq>>
    /\ UNCHANGED notHealth

RealChange(s) ==
    /\ s # real
    /\ real' = s
    /\ UNCHANGED <<clock, healthCache, hpc, hloc, hdone, hseq>>
    /\ UNCHANGED notHealth

\* _cached_health_check, the cached snapshot is returned: no await
HealthHit(c) ==
    /\ hpc[c] = "idle"
    /\ hseq < MaxCalls
    /\ Fresh(clock, healthCache)
    /\ hseq' = hseq + 1
    /\ hdone' = [hdone EXCEPT ![c] =
                    [n |-> hseq + 1, now |-> clock,
                     age |-> AgeOf(clock, healthCache),
                     result |-> healthCache["health"].data, probes |-> 0,
                     status |-> system_ready(healthCache["health"].data)]]
    /\ UNCHANGED <<clock, real, healthCache, hpc, hloc>>
    /\ UNCHANGED notHealth

\* _cached_health_check up to "await check_postgres()"
HealthMiss(c) ==
    /\ hpc[c] = "idle"
    /\ hseq < MaxCalls
    /\ ~Fresh(clock, healthCache)
    /\ hseq' = hseq + 1
    /\ hpc' = [hpc EXCEPT ![c] = "postgres"]
    /\ hloc' = [hloc EXCEPT ![c] =
                   [n |-> hseq + 1, now |-> clock,
                    age |-> AgeOf(clock, healthCache), postgres |-> None,
                    attempt |-> 0]]
    /\ UNCHANGED <<clock, real, healthCache, hdone>>
    /\ UNCHANGED notHealth

\* check_postgres answers; on to "await _check_minio()"
CheckPostgres(c) ==
    /\ hpc[c] = "postgres"
    /\ hpc' = [hpc EXCEPT ![c] = "minio"]
    /\ hloc' = [hloc EXCEPT ![c].postgres = Current(real).postgres]
    /\ UNCHANGED <<clock, real, healthCache, hdone, hseq>>
    /\ UNCHANGED notHealth

\* One attempt of _check_minio_request.  A refused connection is retried
\* until the third attempt; any other outcome ends _check_minio, and the
\* rest of _cached_health_check (no await) stores and returns the result.
CheckMinioAttempt(c, failure) ==
    LET l == hloc[c]
        retry == /\ real.minio # "ok" /\ failure = "connect"
                 /\ l.attempt + 1 < MaxAttempts
        minio == Current(real).minio
        result == [postgres |-> l.postgres, minio |-> minio]
    IN  /\ hpc[c] = "minio"
        /\ IF retry
           THEN /\ hloc' = [hloc EXCEPT ![c].attempt = @ + 1]
                /\ UNCHANGED <<healthCache, hpc, hdone>>
           ELSE /\ healthCache' = CacheOf(result, l.now)
                /\ hdone' = [hdone EXCEPT ![c] =
                                [n |-> l.n, now |-> l.now, age |-> l.age,
                                 result |-> result, probes |-> l.attempt + 2,
                                 status |-> system_ready(result)]]
                /\ hpc' = [hpc EXCEPT ![c] = "idle"]
                /\ hloc' = [hloc EXCEPT ![c] = NoLocals]
        /\ UNCHANGED <<clock, real, hseq>>
        /\ UNCHANGED notHealth

\* No health check made: what the other specifications leave of this part
HealthIdle ==
    /\ clock = 0
    /\ real = [postgres |-> "ok", minio |-> "ok"]
    /\ healthCache = EmptyCache
    /\ hpc = [c \in HCalls |-> "idle"]
    /\ hloc = [c \in HCalls |-> NoLocals]
    /\ hdone = [c \in HCalls |-> NoDone]
    /\ hseq = 0

NextHealth ==
    \/ Tick
    \/ \E s \in RealStates : RealChange(s)
    \/ \E c \in HCalls : HealthHit(c)
    \/ \E c \in HCalls : HealthMiss(c)
    \/ \E c \in HCalls : CheckPostgres(c)
    \/ \E c \in HCalls, failure \in Failures : CheckMinioAttempt(c, failure)


(***************************************************************************)
(* database.py: init_pool, close_pool, check_postgres                      *)
(* main.py: _check_minio_request (tenacity retry), _check_minio, lifespan  *)
(* One probe of each kind at a time, step by step from await to await,     *)
(* while the lifespan of the app opens and closes the pool and the client. *)
(* A probe can start before the lifespan has run (the app used without     *)
(* its lifespan, as the tests do), while serving, and after teardown.      *)
(***************************************************************************)
PoolNotInitialized == <<"error", "Pool not initialized">>
PgInterfaceError == <<"error", "Database interface error">>
PgOtherError == <<"error", "Database error">>

\* How pool.connection() / SELECT 1 ends
QueryOutcomes == {"ok", "OperationalError", "InterfaceError", "Exception"}

\* How one client.get(MINIO_HEALTH) + raise_for_status() ends
AttemptOutcomes == {"ok", "ConnectError", "TimeoutException", "HTTPStatusError",
                    "Exception"}

\* (mutant) retry_if_exception_type(Exception)
Retryable_Any(outcome) == outcome # "ok"

\* retry_if_exception_type((httpx.ConnectError, httpx.TimeoutException))
Retryable(outcome) == outcome \in {"ConnectError", "TimeoutException"}

\* stop_after_attempt(3)
stop_after_attempt(attempt_number) == attempt_number >= MaxAttempts

Max2(a, b) == IF a >= b THEN a ELSE b
Min2(a, b) == IF a <= b THEN a ELSE b

\* (mutant) the exponent is the attempt number, not the attempt number - 1
wait_exponential_FromTwo(attempt_number) ==
    LET exp    == 2 ^ attempt_number
        result == 1 * exp
    IN  Max2(Max2(0, 1), Min2(result, 10))

\* wait_exponential(multiplier=1, min=1, max=10) after attempt attempt_number
wait_exponential(attempt_number) ==
    LET exp    == 2 ^ (attempt_number - 1)
        result == 1 * exp
    IN  Max2(Max2(0, 1), Min2(result, 10))

\* (mutant) check_postgres without its last "except Exception"
check_postgres_except_NoCatchAll(how) ==
    CASE how = "ok"               -> Ok
      [] how = "OperationalError" -> PgError
      [] how = "InterfaceError"   -> PgInterfaceError
      [] OTHER                    -> <<"raised", how>>

\* check_postgres: what it returns for each way the query can end
check_postgres_except(how) ==
    CASE how = "ok"               -> Ok
      [] how = "OperationalError" -> PgError
      [] how = "InterfaceError"   -> PgInterfaceError
      [] OTHER                    -> PgOtherError

\* _check_minio: {"status": "ok"}, or except Exception: the Minio error
check_minio_except(outcome) == IF outcome = "ok" THEN Ok ELSE MinioError

ServingPhases == {"import", "serving", "down"}

InitProbe ==
    /\ lphase = "import"
    /\ ppc = "idle" /\ plog = <<>> /\ presult = None
    /\ mpc = "idle" /\ mclient = "none" /\ mlog = <<>> /\ msleeps = <<>>
    /\ mresult = None

\* lifespan: await init_pool(); a failing pool.open() is only logged
InitPool ==
    /\ lphase = "import"
    /\ lphase' = "pooled"
    /\ pool' \in {"open", "closed"}
    /\ UNCHANGED <<httpClient, ppc, plog, presult, mpc, mclient, mlog, msleeps,
                   mresult>>
    /\ UNCHANGED notProbe

\* lifespan: http_client = httpx.AsyncClient(...); yield
ClientUp ==
    /\ lphase = "pooled"
    /\ lphase' = "serving"
    /\ httpClient' = "open"
    /\ UNCHANGED <<pool, ppc, plog, presult, mpc, mclient, mlog, msleeps, mresult>>
    /\ UNCHANGED notProbe

\* lifespan, finally: shutdown_event.set(), up to "await http_client.aclose()"
ShutdownEvent ==
    /\ lphase = "serving"
    /\ lphase' = "event_set"
    /\ UNCHANGED <<pool, httpClient, ppc, plog, presult, mpc, mclient, mlog,
                   msleeps, mresult>>
    /\ UNCHANGED notProbe

\* lifespan, finally: await http_client.aclose(); http_client = None
ClientDown ==
    /\ lphase = "event_set"
    /\ lphase' = "client_closed"
    /\ httpClient' = "none"
    /\ UNCHANGED <<pool, ppc, plog, presult, mpc, mclient, mlog, msleeps, mresult>>
    /\ UNCHANGED notProbe

\* (mutant) close_pool closes the pool and keeps the handle
ClosePool_KeepsHandle ==
    /\ lphase = "client_closed"
    /\ lphase' = "down"
    /\ pool' = "closed"
    /\ UNCHANGED <<httpClient, ppc, plog, presult, mpc, mclient, mlog, msleeps,
                   mresult>>
    /\ UNCHANGED notProbe

\* close_pool: if pool: await pool.close(); pool = None
ClosePool ==
    /\ lphase = "client_closed"
    /\ lphase' = "down"
    /\ pool' = "none"
    /\ UNCHANGED <<httpClient, ppc, plog, presult, mpc, mclient, mlog, msleeps,
                   mresult>>
    /\ UNCHANGED notProbe

\* lifespan, finally: await asyncio.sleep(2) is over and the lifespan returns
GraceOver ==
    /\ lphase = "down"
    /\ lphase' = "exited"
    /\ UNCHANGED <<pool, httpClient, ppc, plog, presult, mpc, mclient, mlog,
                   msleeps, mresult>>
    /\ UNCHANGED notProbe

\* check_postgres up to its first await.  plog starts with the state the
\* pool was found in.
PgStart ==
    /\ ppc \in {"idle", "done"}
    /\ lphase \in ServingPhases
    /\ plog' = <<pool>>
    /\ CASE pool = "none"   -> ppc' = "done" /\ presult' = PoolNotInitialized
         [] pool = "closed" -> ppc' = "reopen" /\ UNCHANGED presult
         [] OTHER           -> ppc' = "query" /\ UNCHANGED presult
    /\ UNCHANGED <<lphase, pool, httpClient, mpc, mclient, mlog, msleeps, mresult>>
    /\ UNCHANGED notProbe

\* if pool.closed: await pool.open()
PgReopen(opens) ==
    /\ ppc = "reopen"
    /\ IF pool # "none" /\ opens
       THEN /\ pool' = "open"
            /\ plog' = Append(plog, "reopened")
            /\ ppc' = "query"
            /\ UNCHANGED presult
       ELSE /\ plog' = Append(plog, "reopen failed")
            /\ ppc' = "done"
            /\ presult' = PgError
            /\ UNCHANGED pool
    /\ UNCHANGED <<lphase, httpClient, mpc, mclient, mlog, msleeps, mresult>>
    /\ UNCHANGED notProbe

\* async with pool.connection() ... await cur.execute("SELECT 1").  A pool
\* closed or set to None meanwhile raises PoolClosed (an OperationalError),
\* or AttributeError.
PgQuery(outcome) ==
    LET how == CASE pool = "none"   -> "Exception"
                 [] pool = "closed" -> "OperationalError"
                 [] OTHER           -> outcome
    IN  /\ ppc = "query"
        /\ plog' = Append(plog, "query")
        /\ ppc' = "done"
        /\ presult' = check_postgres_except(how)
        /\ UNCHANGED <<lphase, pool, httpClient, mpc, mclient, mlog, msleeps,
                       mresult>>
        /\ UNCHANGED notProbe

\* _check_minio up to the first attempt: client = http_client, or the
\* fallback client when there is none
MinioStart ==
    /\ mpc \in {"idle", "done"}
    /\ lphase \in ServingPhases
    /\ mpc' = "attempt"
    /\ mclient' = IF httpClient = "none" THEN "fallback" ELSE "shared"
    /\ mlog' = <<>>
    /\ msleeps' = <<>>
    /\ UNCHANGED <<lphase, pool, httpClient, ppc, plog, presult, mresult>>
    /\ UNCHANGED notProbe

\* One attempt of _check_minio_request and what tenacity and _check_minio
\* make of its outcome
MinioAttempt(outcome) ==
    LET attempt_number == Len(mlog) + 1
    IN  /\ mpc = "attempt"
        /\ mlog' = Append(mlog, outcome)
        /\ IF outcome = "ok"
           THEN /\ mpc' = "done"
                /\ mresult' = check_minio_except(outcome)
                /\ UNCHANGED msleeps
           ELSE IF Retryable(outcome) /\ ~stop_after_attempt(attempt_number)
           THEN /\ mpc' = "sleep"
                /\ msleeps' = Append(msleeps, wait_exponential(attempt_number))
                /\ UNCHANGED mresult
           ELSE /\ mpc' = "done"
                /\ mresult' = check_minio_except(outcome)
                /\ UNCHANGED msleeps
        /\ UNCHANGED <<lphase, pool, httpClient, ppc, plog, presult, mclient>>
        /\ UNCHANGED notProbe

\* The wait before the next attempt is over
MinioSleep ==
    /\ mpc = "sleep"
    /\ mpc' = "attempt"
    /\ UNCHANGED <<lphase, pool, httpClient, ppc, plog, presult, mclient, mlog,
                   msleeps, mresult>>
    /\ UNCHANGED notProbe

\* No probe made: what the other specifications leave of this part
ProbeIdle ==
    /\ lphase = "serving"
    /\ ppc = "idle" /\ plog = <<>> /\ presult = None
    /\ mpc = "idle" /\ mclient = "none" /\ mlog = <<>> /\ msleeps = <<>>
    /\ mresult = None

NextProbe ==
    \/ InitPool
    \/ ClientUp
    \/ ShutdownEvent
    \/ ClientDown
    \/ ClosePool
    \/ GraceOver
    \/ PgStart
    \/ \E opens \in BOOLEAN : PgReopen(opens)
    \/ \E outcome \in QueryOutcomes : PgQuery(outcome)
    \/ MinioStart
    \/ \E outcome \in AttemptOutcomes : MinioAttempt(outcome)
    \/ MinioSleep


(***************************************************************************)
(* main.py: the bodies of register_module, delete_module and               *)
(* start_module_run, requests overlapping (the handlers are plain "def"    *)
(* functions, run on a thread pool, and several processes can share the    *)
(* state directory).  Each step is one access to a file: each read and     *)
(* each write of AtomicJsonStorage is atomic (SpecStore), and nothing      *)
(* holds a lock from one access to the next.  The requests are those that  *)
(* verify_api_key and the schema have admitted.                            *)
(***************************************************************************)
MaxRequests == 3

Workers == {"w1", "w2"}

ConcManifests == { Manifest(A, V100, None), Manifest(B, V100, A),
                   Manifest(B, V210rc, None) }
ConcModuleIds == {A, B}

\* (mutant) manifest_data["id"] = manifest_data["name"]
manifest_data_NameOnly(m) == [m EXCEPT !.id = m.name]

\* manifest_data after manifest_data["id"] = module_id
manifest_data(m) == [m EXCEPT !.id = Or(m.id, m.name)]

NoRequestC == [op |-> "none", arg |-> None, n |-> 0]
NoLocalsC == [modules |-> <<>>, runs |-> EmptyDict, run_id |-> "none"]
NoWrite == [moduleId |-> None, registry |-> {}]

\* The run ids given out so far; uuid4 gives a new one
UsedRunIds ==
    { r.runId : r \in returned } \cup { wloc[w].run_id : w \in Workers }

InitConc ==
    /\ wpc = [w \in Workers |-> "idle"]
    /\ wreq = [w \in Workers |-> NoRequestC]
    /\ wloc = [w \in Workers |-> NoLocalsC]
    /\ returned = {}
    /\ lastWrite = NoWrite
    /\ nreq = 0

\* A request reaches its handler
Request(w, op, arg) ==
    /\ wpc[w] = "idle"
    /\ nreq < MaxRequests
    /\ nreq' = nreq + 1
    /\ wreq' = [wreq EXCEPT ![w] = [op |-> op, arg |-> arg, n |-> nreq + 1]]
    /\ wloc' = [wloc EXCEPT ![w] = NoLocalsC]
    /\ wpc' = [wpc EXCEPT ![w] = "ensure"]
    /\ lastWrite' = NoWrite
    /\ UNCHANGED <<modulesFile, runsFile, returned>>
    /\ UNCHANGED notConc

\* _ensure_module_state: if MODULE_STATE_PATH.exists(): return
EnsureExists(w) ==
    /\ wpc[w] = "ensure"
    /\ wpc' = [wpc EXCEPT ![w] = IF modulesFile.kind = "absent" THEN "seed"
                                 ELSE "read"]
    /\ lastWrite' = NoWrite
    /\ UNCHANGED <<modulesFile, runsFile, wreq, wloc, returned, nreq>>
    /\ UNCHANGED notConc

\* A template file whose bytes are not UTF-8: read_text(encoding="utf-8")
\* raises UnicodeDecodeError, which "except json.JSONDecodeError" lets through
NotUtf8 == [kind |-> "not utf-8"]

\* _ensure_module_state: modules_storage.write(template list, or []); the
\* exception of an undecodable template ends the request, nothing written
EnsureSeed(w) ==
    /\ wpc[w] = "seed"
    /\ IF template = NotUtf8
       THEN /\ wpc' = [wpc EXCEPT ![w] = "idle"]
            /\ wreq' = [wreq EXCEPT ![w] = NoRequestC]
            /\ UNCHANGED modulesFile
       ELSE /\ modulesFile' = IF template.kind = "list" THEN template
                               ELSE JList(<<>>)
            /\ wpc' = [wpc EXCEPT ![w] = "read"]
            /\ UNCHANGED wreq
    /\ lastWrite' = NoWrite
    /\ UNCHANGED <<runsFile, wloc, returned, nreq>>
    /\ UNCHANGED notConc

\* modules = _load_modules(), and the handler up to its next file access:
\* the 404 of delete_module and of start_module_run end the request here
ReadModules(w) ==
    LET modules == load_modules(modulesFile)
        op      == wreq[w].op
        found   == IF op = "delete"
                   THEN Len(WithoutId(modules, wreq[w].arg)) # Len(modules)
                   ELSE IF op = "start" THEN HasId(modules, wreq[w].arg.module_id)
                   ELSE TRUE
    IN  /\ wpc[w] = "read"
        /\ IF found
           THEN /\ wloc' = [wloc EXCEPT ![w].modules = modules]
                /\ wpc' = [wpc EXCEPT ![w] =
                              CASE op = "register" -> "register_write"
                                [] op = "delete"   -> "delete_write"
                                [] OTHER           -> "read_runs"]
                /\ UNCHANGED wreq
           ELSE /\ wpc' = [wpc EXCEPT ![w] = "idle"]
                /\ wreq' = [wreq EXCEPT ![w] = NoRequestC]
                /\ UNCHANGED wloc
        /\ lastWrite' = NoWrite
        /\ UNCHANGED <<modulesFile, runsFile, returned, nreq>>
        /\ UNCHANGED notConc

\* register_module: filtered.append(manifest_data); _save_modules(filtered)
RegisterWrite(w) ==
    LET data     == manifest_data(wreq[w].arg)
        filtered == Append(WithoutId(wloc[w].modules, data.id), data)
    IN  /\ wpc[w] = "register_write"
        /\ modulesFile' = JList(filtered)
        /\ wpc' = [wpc EXCEPT ![w] = "idle"]
        /\ wreq' = [wreq EXCEPT ![w] = NoRequestC]
        /\ wloc' = [wloc EXCEPT ![w] = NoLocalsC]
        /\ lastWrite' = NoWrite
        /\ UNCHANGED <<runsFile, returned, nreq>>
        /\ UNCHANGED notConc

\* delete_module: _save_modules(updated)
DeleteWrite(w) ==
    /\ wpc[w] = "delete_write"
    /\ modulesFile' = JList(WithoutId(wloc[w].modules, wreq[w].arg))
    /\ wpc' = [wpc EXCEPT ![w] = "idle"]
    /\ wreq' = [wreq EXCEPT ![w] = NoRequestC]
    /\ wloc' = [wloc EXCEPT ![w] = NoLocalsC]
    /\ lastWrite' = NoWrite
    /\ UNCHANGED <<runsFile, returned, nreq>>
    /\ UNCHANGED notConc

\* start_module_run: run_id = uuid...; runs = _load_runs()
ReadRuns(w, run_id) ==
    /\ wpc[w] = "read_runs"
    /\ run_id \notin UsedRunIds
    /\ wloc' = [wloc EXCEPT ![w].runs = load_runs(runsFile), ![w].run_id = run_id]
    /\ wpc' = [wpc EXCEPT ![w] = "run_write"]
    /\ lastWrite' = NoWrite
    /\ UNCHANGED <<modulesFile, runsFile, wreq, returned, nreq>>
    /\ UNCHANGED notConc

\* start_module_run: runs[run_id] = {...}; _save_runs(runs); return runs[run_id]
RunWrite(w) ==
    LET record == RunRecord(wloc[w].run_id, wreq[w].arg, wreq[w].n)
    IN  /\ wpc[w] = "run_write"
        /\ runsFile' = JDict(Put(wloc[w].runs, wloc[w].run_id, record))
        /\ returned' = returned \cup {record}
        /\ lastWrite' = [moduleId |-> record.moduleId,
                         registry |-> { m.id : m \in
                             { load_modules(modulesFile)[i] :
                                 i \in 1..Len(load_modules(modulesFile)) } }]
        /\ wpc' = [wpc EXCEPT ![w] = "idle"]
        /\ wreq' = [wreq EXCEPT ![w] = NoRequestC]
        /\ wloc' = [wloc EXCEPT ![w] = NoLocalsC]
        /\ UNCHANGED <<modulesFile, nreq>>
        /\ UNCHANGED notConc

\* No request in a handler: what the other specifications leave of this part
ConcIdle ==
    /\ wpc = [w \in Workers |-> "idle"]
    /\ wreq = [w \in Workers |-> NoRequestC]
    /\ wloc = [w \in Workers |-> NoLocalsC]
    /\ returned = {}
    /\ lastWrite = NoWrite
    /\ nreq = 0

NextConc ==
    \/ \E w \in Workers, m \in ConcManifests : Request(w, "register", m)
    \/ \E w \in Workers, id \in ConcModuleIds : Request(w, "delete", id)
    \/ \E w \in Workers, id \in ConcModuleIds :
          Request(w, "start", RunRequest(id, None))
    \/ \E w \in Workers : EnsureExists(w)
    \/ \E w \in Workers : EnsureSeed(w)
    \/ \E w \in Workers : ReadModules(w)
    \/ \E w \in Workers : RegisterWrite(w)
    \/ \E w \in Workers : DeleteWrite(w)
    \/ \E w \in Workers, r \in RunIds : ReadRuns(w, r)
    \/ \E w \in Workers : RunWrite(w)

\* Startup done with the defaults of the tests: what Spec starts from
StartupDone ==
    /\ senv = [module_state |-> UserPath(FALSE, <<"modules.json">>),
               run_state |-> UserPath(FALSE, <<"runs.json">>),
               db_password |-> "safe-pass", s3_secret_key |-> "safe-secret"]
    /\ links = [p \in {} |-> <<>>]
    /\ spc = "serving"
    /\ modulePath = STATE_DIR \o <<"modules.json">>
    /\ runPath = STATE_DIR \o <<"runs.json">>
    /\ storages = { [path |-> modulePath, lock |-> LockOf(modulePath)],
                    [path |-> runPath, lock |-> LockOf(runPath)] }
    /\ fsCreated = { STATE_DIR }
    /\ pool = "open"
    /\ httpClient = "open"

Init == InitApi /\ StartupDone /\ StoreIdle /\ HealthIdle /\ ProbeIdle /\ ConcIdle

Next ==
    \/ \E x \in RegisterInputs : RegisterModule(x[1], x[2])
    \/ \E x \in DeleteInputs : DeleteModule(x[1], x[2])
    \/ \E x \in StartInputs, r \in RunIds : StartModuleRun(x[1], x[2], r)
    \/ \E r \in GetIds : GetModuleRun(r)
    \/ ListModules

Spec == Init /\ [][Next]_vars

\* Before the first request: what SpecStartup leaves of the handlers' state
ApiIdle ==
    /\ apiKey = <<>>
    /\ template = Absent
    /\ modulesFile = Absent
    /\ runsFile = Absent
    /\ prev = [modules |-> Absent, runs |-> Absent]
    /\ last = NoRequest
    /\ created = EmptyDict
    /\ nruns = 0

NextStartup ==
    \/ ImportMkdir
    \/ ImportModulePath
    \/ ImportRunPath
    \/ ImportStorages
    \/ LifespanValidate
    \/ LifespanInitPool
    \/ LifespanHttpClient
    \/ ServeFirstWrite

StartupInit == InitStartup /\ ApiIdle /\ StoreIdle /\ HealthIdle /\ ProbeIdle /\ ConcIdle

StoreInit == InitStore /\ ApiIdle /\ StartupDone /\ HealthIdle /\ ProbeIdle /\ ConcIdle

HealthInit ==
    InitHealth /\ ApiIdle /\ StartupDone /\ StoreIdle /\ ProbeIdle /\ ConcIdle

\* The app imported, its lifespan not yet run
ImportDone ==
    /\ senv = [module_state |-> UserPath(FALSE, <<"modules.json">>),
               run_state |-> UserPath(FALSE, <<"runs.json">>),
               db_password |-> "safe-pass", s3_secret_key |-> "safe-secret"]
    /\ links = [p \in {} |-> <<>>]
    /\ spc = "imported"
    /\ modulePath = STATE_DIR \o <<"modules.json">>
    /\ runPath = STATE_DIR \o <<"runs.json">>
    /\ storages = { [path |-> modulePath, lock |-> LockOf(modulePath)],
                    [path |-> runPath, lock |-> LockOf(runPath)] }
    /\ fsCreated = { STATE_DIR }
    /\ pool = "none"
    /\ httpClient = "none"

ProbeInit ==
    InitProbe /\ ImportDone /\ ApiIdle /\ StoreIdle /\ HealthIdle /\ ConcIdle

SpecStore == StoreInit /\ [][NextStore]_vars

\* The documents as anything may have left them: absent, whole, cut short,
\* or not text at all
InitStoreAnyFile ==
    /\ disk \in [Paths -> {NoFile, FileOf(Dump(Old)), FileOf(Truncated),
                           FileOf(Undecodable)}]
    /\ lockHolder = [f \in Paths |-> "free"]
    /\ pcS = [p \in Procs |-> "idle"]
    /\ call = [p \in Procs |-> NoCall]
    /\ tmpf = [p \in Procs |-> NoFile]
    /\ ret = NoOutcome
    /\ waited = [p \in Procs |-> 0]

StoreAnyFileInit ==
    InitStoreAnyFile /\ ApiIdle /\ StartupDone /\ HealthIdle /\ ProbeIdle /\ ConcIdle

SpecStoreAnyFile == StoreAnyFileInit /\ [][NextStore]_vars

\* A process waiting for the lock keeps polling: it gets the lock, lets a
\* time unit pass, or gives up
StoreFairness ==
    \A p \in Procs : WF_vars(Acquire(p) \/ LockWait(p) \/ LockTimeout(p))

SpecStoreLive == StoreInit /\ [][NextStore]_vars /\ StoreFairness

SpecStartup == StartupInit /\ [][NextStartup]_vars

SpecHealth == HealthInit /\ [][NextHealth]_vars

SpecProbe == ProbeInit /\ [][NextProbe]_vars

\* The bundled template is not part of the sources: absent, text json.loads
\* rejects, bytes that are not UTF-8, a JSON value that is no list, a list
ConcTemplates ==
    { Absent, Corrupt, NotUtf8, JDict(EmptyDict), JList(<<TemplateEntry>>) }

\* The module-state file absent or empty, the template any of the above
InitConcFiles ==
    /\ apiKey = <<>>
    /\ template \in ConcTemplates
    /\ modulesFile \in { Absent, JList(<<>>) }
    /\ runsFile = Absent
    /\ prev = [modules |-> Absent, runs |-> Absent]
    /\ last = NoRequest
    /\ created = EmptyDict
    /\ nruns = 0

ConcInit ==
    InitConc /\ InitConcFiles /\ StartupDone /\ StoreIdle /\ HealthIdle /\ ProbeIdle

SpecConc == ConcInit /\ [][NextConc]_vars

(***************************************************************************)
(* docs/module-development/api_stub/main.py: the copy of the stub in the   *)
(* documentation.  Its handlers take the JSON body as a plain dict (no     *)
(* schema, no API key) and read and write the files directly.              *)
(***************************************************************************)
\* The key is not in the dict
Missing == <<"missing">>

\* dict.get(key): None for a key that is not there
Get(value) == IF value = Missing THEN None ELSE value

\* Bodies of POST /v1/devkit/modules: "id" not there, null, "", or a text;
\* one body without "version"
DocsManifests ==
    { Manifest(n, V100, i) : n \in {A, B}, i \in {Missing, None, <<>>, A} }
        \cup { Manifest(A, V210rc, Missing), Manifest(A, Missing, Missing) }

DocsTemplates == { Absent, Corrupt, JList(<<TemplateEntry>>) }

\* _ensure_module_state of the copy: the template's text is copied as it is
docs_ensure_module_state(file, tmpl) ==
    IF file.kind # "absent" THEN file
    ELSE IF tmpl.kind # "absent" THEN tmpl
    ELSE JList(<<>>)

\* _load_modules of the copy
docs_load_modules(file) == IF file.kind = "list" THEN file.value ELSE <<>>

\* manifest.setdefault("id", module_id): sets the key only when it is not
\* there
setdefault_id(manifest, module_id) ==
    IF manifest.id = Missing THEN [manifest EXCEPT !.id = module_id]
    ELSE manifest

\* register_module of the copy
DocsRegisterModule(manifest) ==
    LET file1     == docs_ensure_module_state(modulesFile, template)
        modules   == docs_load_modules(file1)
        module_id == Or(Get(manifest.id), manifest.name)
        stored    == setdefault_id(manifest, module_id)
        filtered  == Append(WithoutId(modules, module_id), stored)
    IN  /\ nreq < MaxRequests
        /\ nreq' = nreq + 1
        /\ prev' = [modules |-> modulesFile, runs |-> runsFile]
        /\ IF manifest.name = Missing \/ manifest.version = Missing
           THEN /\ last' = Response("docs register", None, manifest, "400", None)
                /\ UNCHANGED modulesFile
           ELSE /\ modulesFile' = JList(filtered)
                /\ last' = Response("docs register", None, manifest, "200", stored)
        /\ UNCHANGED <<apiKey, template, runsFile, created, nruns>>
        /\ UNCHANGED <<startVars, storeVars, healthVars, probeVars>>
        /\ UNCHANGED <<wpc, wreq, wloc, returned, lastWrite>>

\* delete_module of the copy
DocsDeleteModule(module_id) ==
    LET file1   == docs_ensure_module_state(modulesFile, template)
        modules == docs_load_modules(file1)
        updated == WithoutId(modules, module_id)
        req     == [module_id |-> module_id]
    IN  /\ nreq < MaxRequests
        /\ nreq' = nreq + 1
        /\ prev' = [modules |-> modulesFile, runs |-> runsFile]
        /\ IF Len(updated) = Len(modules)
           THEN /\ last' = Response("docs delete", None, req, "404", None)
                /\ modulesFile' = file1
           ELSE /\ modulesFile' = JList(updated)
                /\ last' = Response("docs delete", None, req, "200", module_id)
        /\ UNCHANGED <<apiKey, template, runsFile, created, nruns>>
        /\ UNCHANGED <<startVars, storeVars, healthVars, probeVars>>
        /\ UNCHANGED <<wpc, wreq, wloc, returned, lastWrite>>

NextDocs ==
    \/ \E manifest \in DocsManifests : DocsRegisterModule(manifest)
    \/ \E module_id \in {A, B} : DocsDeleteModule(module_id)

InitDocsFiles ==
    /\ apiKey = <<>>
    /\ template \in DocsTemplates
    /\ modulesFile = Absent
    /\ runsFile = Absent
    /\ prev = [modules |-> Absent, runs |-> Absent]
    /\ last = NoRequest
    /\ created = EmptyDict
    /\ nruns = 0

DocsInit ==
    /\ InitDocsFiles /\ StartupDone /\ StoreIdle /\ HealthIdle /\ ProbeIdle
    /\ ConcIdle

SpecDocs == DocsInit /\ [][NextDocs]_vars

\* Every request httpx makes ends (the client has timeouts), and so does
\* every asyncio sleep of tenacity; once the teardown of the lifespan has
\* begun, its awaits (aclose, pool.close, sleep(2)) end
ProbeFairness ==
    /\ WF_vars(\E outcome \in AttemptOutcomes : MinioAttempt(outcome))
    /\ WF_vars(MinioSleep)
    /\ WF_vars(ClientDown)
    /\ WF_vars(ClosePool)
    /\ WF_vars(GraceOver)

SpecProbeLive == ProbeInit /\ [][NextProbe]_vars /\ ProbeFairness

(***************************************************************************)
(* Claims checked under Spec                                               *)
(***************************************************************************)
Mutating == {"register", "delete", "start"}
Admitted == verify_api_key(apiKey, last.header) = "ok"

\* What list_modules returns in the current state
Listed == load_modules(ensure_module_state(modulesFile, template))
\* The registry the last request found
RegistryBefore == load_modules(ensure_module_state(prev.modules, template))

IdsOf(modules) == { modules[i].id : i \in 1..Len(modules) }

\* The id a manifest is registered under: the supplied id, else the name
ManifestId(m) == IF m.id = None THEN m.name ELSE m.id

\* C1: every manifest that passes validation is registered, and after
\* register_module has returned list_modules holds exactly one entry with the
\* manifest's id (the supplied id, or the name when none is supplied): the
\* registered manifest, also when an entry with that id was there before.
C1_RegisteredExactlyOnce ==
    last.op = "register" =>
        /\ (Admitted /\ NameOk(last.req.name) /\ VersionOk(last.req.version)
                /\ IdOk(last.req.id)) => last.status = "200"
        /\ last.status = "200" =>
            LET id == ManifestId(last.req)
                at == { i \in 1..Len(Listed) : Listed[i].id = id }
            IN  /\ Cardinality(at) = 1
                /\ \A i \in at : Listed[i] = [last.req EXCEPT !.id = id]
                /\ last.resp.id = id

\* C1 witness: a registration replaced a different earlier entry of the same id
C1_Witness ==
    /\ last.op = "register" /\ last.status = "200"
    /\ \E i \in 1..Len(RegistryBefore) :
          /\ RegistryBefore[i].id = ManifestId(last.req)
          /\ RegistryBefore[i] # last.resp
    /\ Len(Listed) = 2

\* The defects the claim names
BadChars(x) == x # None /\ \E i \in 1..Len(x) : x[i] \notin Alnum \cup {"_", "-"}
TooLong(x)  == x # None /\ Len(x) > 128
C2_Defect(m) ==
    \/ BadChars(m.name) \/ BadChars(m.id)
    \/ m.version = None \/ ~VersionMatch(m.version)
    \/ TooLong(m.name) \/ TooLong(m.id)

\* C2: a registration whose manifest has a bad character in name or id, no
\* version, a version that is not MAJOR.MINOR.PATCH[-prerelease], or a name or
\* id longer than 128 is rejected, with a validation error once the caller is
\* admitted, and nothing is written: both files are as they were.
C2_InvalidRejectedBeforeWrite ==
    (last.op = "register" /\ C2_Defect(last.req)) =>
        /\ last.status # "200"
        /\ Admitted => last.status = "422"
        /\ modulesFile = prev.modules
        /\ runsFile = prev.runs

\* C2 witness: "../evil" rejected while the document holds a module
C2_Witness ==
    /\ last.op = "register" /\ last.status = "422"
    /\ BadChars(last.req.name)
    /\ modulesFile.kind = "list" /\ Len(modulesFile.value) > 0

\* C3: a start-run request that reaches the handler with a moduleId that is
\* the id of no entry of the modules document fails with NotFound (404); and
\* no request with such a moduleId creates a run record: the runs document is
\* unchanged.
C3_UnknownModuleNotFound ==
    (last.op = "start" /\ last.req.module_id \notin IdsOf(RegistryBefore)) =>
        /\ (Admitted /\ ModuleRunRequest(last.req)) => last.status = "404"
        /\ last.status # "200"
        /\ runsFile = prev.runs

\* C3 witness: NotFound although other modules are registered
C3_Witness ==
    /\ last.op = "start" /\ last.status = "404"
    /\ Len(RegistryBefore) > 0
    /\ last.req.module_id \notin IdsOf(RegistryBefore)

\* C4: a run started for a registered module returns a record with status
\* completed, result.status success and a non-empty result.summary, stored
\* under the generated run id; get_module_run with that id returns that record.
C4_RunCompletedAndRetrievable ==
    /\ (last.op = "start" /\ Admitted /\ ModuleRunRequest(last.req)
            /\ last.req.module_id \in IdsOf(RegistryBefore)) => last.status = "200"
    /\ (last.op = "start" /\ last.status = "200") =>
            /\ last.resp.status = "completed"
            /\ last.resp.result.status = "success"
            /\ DOMAIN last.resp.result.summary # {}
            /\ last.resp.moduleId = last.req.module_id
            /\ last.resp.runId \in DOMAIN load_runs(runsFile)
            /\ load_runs(runsFile)[last.resp.runId] = last.resp
    /\ (last.op = "get" /\ last.req.run_id \in DOMAIN created) =>
            /\ last.status = "200"
            /\ last.resp = created[last.req.run_id]

\* C4 witness: a run of a module registered by a request was fetched by its id
C4_Witness ==
    /\ last.op = "get" /\ last.status = "200"
    /\ last.resp.status = "completed"
    /\ last.resp.moduleId = B
    /\ last.resp = created[last.req.run_id]

\* C15 as stated: a delete removes every entry with the id and keeps the
\* others in order; without such an entry it is NotFound and the module-state
\* file is as it was.
C15_DeleteWritesNothingOnNotFound ==
    last.op = "delete" =>
        LET Keep(module) == module.id # last.req.module_id
        IN  /\ last.status = "200" => Listed = SelectSeq(RegistryBefore, Keep)
            /\ last.status = "404" => modulesFile = prev.modules

\* C15, amended: a delete that is admitted answers 200 when the registry has
\* an entry with the id and 404 when it has none.  On 200 the registry is the
\* one before without every entry of that id, the others unchanged and in
\* order.  Otherwise the registry content and the runs document are unchanged,
\* and the module-state file is unchanged too unless it was absent: then the
\* 404 leaves it seeded from the template (or with the empty list), the one
\* write a NotFound makes.
C15_DeleteRemovesAllOrNotFound ==
    last.op = "delete" =>
        LET id == last.req.module_id
            Keep(module) == module.id # id
        IN  /\ Admitted =>
                  last.status = IF id \in IdsOf(RegistryBefore) THEN "200" ELSE "404"
            /\ last.status = "200" =>
                  /\ id \in IdsOf(RegistryBefore)
                  /\ Listed = SelectSeq(RegistryBefore, Keep)
                  /\ modulesFile = JList(Listed)
            /\ last.status # "200" =>
                  /\ Listed = RegistryBefore
                  /\ modulesFile =
                        IF last.status = "404" /\ prev.modules = Absent
                        THEN (IF template.kind = "list" THEN template
                              ELSE JList(<<>>))
                        ELSE prev.modules
            /\ runsFile = prev.runs

\* C15 witness: two entries of the deleted id went, the entry between and
\* after them stayed
C15_Witness ==
    /\ last.op = "delete" /\ last.status = "200"
    /\ Len(RegistryBefore) = 3 /\ Len(Listed) = 1
    /\ RegistryBefore[1].id = last.req.module_id
    /\ RegistryBefore[2].id = last.req.module_id
    /\ RegistryBefore[3] = Listed[1]

\* C9 (as claimed): with a key configured, a mutating call without the key or
\* with a different key fails with 401 and leaves both files unchanged; with
\* no key configured the call is admitted whatever header is sent.
C9_UnauthorizedIs401 ==
    last.op \in Mutating =>
        IF apiKey # <<>>
        THEN (last.header = None \/ last.header # apiKey) =>
                /\ last.status = "401"
                /\ modulesFile = prev.modules
                /\ runsFile = prev.runs
        ELSE last.status \notin {"401", "500"}

(***************************************************************************)
(* Claims checked under SpecStartup                                        *)
(***************************************************************************)
StateDir == Resolve(STATE_DIR, links)

\* The configured value resolves to a location outside the state directory
Escapes(user_path) ==
    ~IsRelativeTo(Resolve(Join(STATE_DIR, user_path), links), StateDir)

\* No "." or ".." segment and no symbolic link is left in the path
ResolvedForm(path) ==
    /\ \A i \in 1..Len(path) : path[i] \notin {".", ".."}
    /\ \A i \in 1..Len(path) : SubSeq(path, 1, i) \notin DOMAIN links

BeforePaths == {"import", "module_path", "run_path"}

\* C8: when the module-state or the run-state override resolves outside the
\* state directory, startup ends in the traversal error at that override:
\* no storage object is built, nothing but the state directory is created,
\* the service never serves.  An override that resolves inside the state
\* directory is accepted and stored in resolved form.  Nothing is ever
\* created outside the state directory.
C8_TraversalBlocked ==
    /\ (Escapes(senv.module_state) \/ Escapes(senv.run_state)) =>
          /\ spc \in BeforePaths \cup {"traversal_error"}
          /\ storages = {}
          /\ fsCreated \subseteq {StateDir}
    /\ Escapes(senv.module_state) =>
          /\ spc \in {"import", "module_path", "traversal_error"}
          /\ modulePath = NoPath /\ runPath = NoPath
    /\ Escapes(senv.run_state) => runPath = NoPath
    /\ (~Escapes(senv.module_state) /\ spc \notin {"import", "module_path"}) =>
          /\ modulePath = Resolve(Join(STATE_DIR, senv.module_state), links)
          /\ ResolvedForm(modulePath)
          /\ IsRelativeTo(modulePath, StateDir)
    /\ (~Escapes(senv.module_state) /\ ~Escapes(senv.run_state)) =>
          spc # "traversal_error"
    /\ \A f \in fsCreated : IsRelativeTo(f, StateDir)

\* C8 witness: the module-state override was accepted in resolved form and the
\* run-state override, which leaves the state directory, stopped startup
C8_Witness ==
    /\ spc = "traversal_error"
    /\ Escapes(senv.run_state)
    /\ modulePath # NoPath
    /\ modulePath # Join(STATE_DIR, senv.module_state)
    /\ storages = {}

DenyList == {"postgres", "minioadmin", "CHANGE_ME_INSECURE", "password", "admin"}

\* C10: with the database password or the object-store secret key in the
\* deny-list the service never serves: startup stops at the credential check,
\* before the connection pool and the HTTP client exist.
C10_InsecureCredentialsBlockStartup ==
    (senv.db_password \in DenyList \/ senv.s3_secret_key \in DenyList) =>
        /\ spc \in BeforePaths \cup
                   {"storages", "imported", "traversal_error", "credentials_error"}
        /\ pool = "none"
        /\ httpClient = "none"

\* C10 witness: a safe database password with an insecure object-store key
C10_Witness ==
    /\ spc = "credentials_error"
    /\ senv.db_password \notin DenyList
    /\ senv.s3_secret_key \in DenyList
    /\ pool = "none" /\ httpClient = "none"

(***************************************************************************)
(* Claims checked under SpecStore                                          *)
(***************************************************************************)
\* A file is absent or holds one whole document
Complete(file) == ~file.exists \/ \E d \in Docs : file.text = Dump(d)

\* The statements of read and write inside "with self.lock"
Section == {"r_exists", "r_load", "w_mkstemp", "w_dump", "w_dump2", "w_replace",
            "w_except", "release"}
InSection(p) == pcS[p] \in Section

C5_TargetWhole ==
    /\ \A f \in Paths : Complete(disk[f])
    /\ ret.kind = "read" => (Complete(ret.raw) /\ ret.value \in Docs \cup {Default})

C5_TargetStep ==
    \A f \in Paths :
        \/ disk'[f] = disk[f]
        \/ \E p \in Procs :
              /\ pcS[p] = "w_replace" /\ call[p].path = f
              /\ disk'[f] = FileOf(Dump(call[p].data))
              /\ call[p].data \in Docs

\* C5: AtomicJsonStorage.write is atomic for the target: in every state,
\* crashes at any statement included, the target holds one whole document (or
\* is absent), every step leaves it as it was or installs the complete new
\* document at once, and no read is given a partially written text.
C5_WriteAtomic == []C5_TargetWhole /\ [][C5_TargetStep]_vars

\* C5 witness: a writer died after its temporary file held the whole new
\* document and before the rename; the target still holds the old document
C5_Witness ==
    /\ ret.kind = "crashed"
    /\ ret.value = "w_replace"
    /\ ret.raw = FileOf(Dump(New))
    /\ disk[ret.path] = FileOf(Dump(Old))

\* C6: for each path at most one process is inside the locked section of read
\* or write, and it is the holder of the path's lock.
C6_MutualExclusion ==
    \A f \in Paths :
        /\ Cardinality({p \in Procs : InSection(p) /\ call[p].path = f}) <= 1
        /\ \A p \in Procs :
              (InSection(p) /\ call[p].path = f) => lockHolder[f] = p

\* C6 witness: a reader waits for the lock of the path a writer is writing,
\* while the other path is free
C6_Witness ==
    \E p, q \in Procs :
        /\ p # q
        /\ pcS[p] = "w_dump2" /\ call[p].op = "write"
        /\ pcS[q] = "acquire" /\ call[q].op = "read"
        /\ call[q].path = call[p].path
        /\ \E f \in Paths : lockHolder[f] = "free"

C13_WaitBounded ==
    \A p \in Procs :
        /\ waited[p] <= 10
        /\ waited[p] > 0 => pcS[p] = "acquire"

C13_TimeoutStep ==
    \A p \in Procs :
        (pcS[p] = "acquire" /\ pcS'[p] = "idle" /\ ret'.kind = "Timeout") =>
            /\ waited[p] = 10
            /\ lockHolder[call[p].path] \notin {"free", p}
            /\ disk' = disk
            /\ lockHolder' = lockHolder

\* C13: a read or write waits for the lock at most 10 time units; when the
\* lock is still held by another process then, the call ends with the Timeout
\* error and no file and no lock has changed; and every call waiting for the
\* lock stops waiting (it gets the lock or fails).
C13_LockWaitEnds ==
    /\ []C13_WaitBounded
    /\ [][C13_TimeoutStep]_vars
    /\ \A p \in Procs : (pcS[p] = "acquire") ~> (pcS[p] # "acquire")

\* C13 witness: a write gave up with Timeout while another process was in
\* the middle of writing a document, which still holds its old content
C13_Witness ==
    /\ ret.kind = "Timeout" /\ ret.value = New
    /\ \E q \in Procs :
          /\ pcS[q] = "w_dump2"
          /\ disk[call[q].path] = FileOf(Dump(Old))

(***************************************************************************)
(* Claims checked under SpecStoreAnyFile                                   *)
(***************************************************************************)
Parses(file) == file.exists /\ \E d \in Docs : file.text = Dump(d)

\* C14 (as claimed): a read that has the lock never raises; it returns the
\* default when the file is absent or its content is not a JSON document and
\* the parsed document otherwise, and the file is as the read found it.
C14_ReadReturnsDefaultOrDocument ==
    /\ ret.kind # "read raised"
    /\ ret.kind = "read" =>
          /\ ret.value = IF Parses(ret.raw)
                         THEN (CHOOSE d \in Docs : ret.raw.text = Dump(d))
                         ELSE Default
          /\ disk[ret.path] = ret.raw

(***************************************************************************)
(* Claims checked under SpecHealth                                         *)
(***************************************************************************)
Returned_(c) == hdone[c].n > 0
FoundFresh(r) == r.age >= 0 /\ r.age < 5

\* c makes a call in this step
Starts(c) ==
    /\ hpc[c] = "idle"
    /\ hseq' = hseq + 1
    /\ hpc'[c] # "idle" \/ hdone'[c] # hdone[c]

\* C7 as stated: of two calls made less than 5 seconds apart, the later one
\* returns the snapshot the earlier one returned and invokes no probe.
C7_CallsWithinFiveSecondsAgree ==
    \A c, d \in HCalls :
        (/\ Returned_(c) /\ Returned_(d)
         /\ hdone[c].n < hdone[d].n
         /\ hdone[d].now - hdone[c].now < 5)
        => (hdone[d].result = hdone[c].result /\ hdone[d].probes = 0)

C7_NoProbeOnFresh ==
    \A c \in HCalls :
        /\ (Returned_(c) /\ FoundFresh(hdone[c])) => hdone[c].probes = 0
        /\ hpc[c] # "idle" => ~FoundFresh(hloc[c])

C7_ServedFromCache ==
    \A c \in HCalls :
        (/\ Starts(c)
         /\ "health" \in DOMAIN healthCache
         /\ clock - healthCache["health"].timestamp < 5)
        => (/\ hpc'[c] = "idle"
            /\ hdone'[c].result = healthCache["health"].data
            /\ hdone'[c].probes = 0
            /\ healthCache' = healthCache)

\* C7, amended: a call that starts while the cache holds a snapshot whose
\* timestamp (the start of the call that stored it) is less than 5 seconds
\* old returns exactly that snapshot at once, invokes no probe and leaves the
\* cache as it is, whatever the real status of the services is by then.
C7_FreshSnapshotServedWithoutProbe ==
    []C7_NoProbeOnFresh /\ [][C7_ServedFromCache]_vars

\* C7 witness: the last call, made 4 seconds after the snapshot was taken,
\* has just returned it without a probe while both services are failing
C7_Witness ==
    \E c \in HCalls :
        /\ Returned_(c)
        /\ hdone[c].n = hseq /\ hdone[c].now = clock
        /\ hdone[c].age = 4
        /\ hdone[c].probes = 0
        /\ hdone[c].result = [postgres |-> Ok, minio |-> Ok]
        /\ real = [postgres |-> "error", minio |-> "error"]

StatusOf(probe) == probe[1]

\* C11: every answer of system_ready, served from the cache or from fresh
\* probes, says ready exactly when the postgres status and the minio status
\* of the snapshot it carries are both ok, and degraded otherwise.
C11_ReadyIffBothOk ==
    \A c \in HCalls :
        Returned_(c) =>
            /\ hdone[c].status \in {"ready", "degraded"}
            /\ hdone[c].status = "ready" <=>
                  (/\ StatusOf(hdone[c].result.postgres) = "ok"
                   /\ StatusOf(hdone[c].result.minio) = "ok")

\* C11 witness: a cached snapshot with postgres ok and minio failing was
\* answered as degraded, after an answer of ready
C11_Witness ==
    \E c, d \in HCalls :
        /\ Returned_(c) /\ Returned_(d) /\ hdone[d].n < hdone[c].n
        /\ hdone[d].status = "ready"
        /\ hdone[c].probes = 0
        /\ hdone[c].result = [postgres |-> Ok, minio |-> MinioError]
        /\ hdone[c].status = "degraded"

(***************************************************************************)
(* Claims checked under SpecProbe and SpecProbeLive                        *)
(***************************************************************************)
RetriedErrors == {"ConnectError", "TimeoutException"}
MinioRunning == mpc \in {"attempt", "sleep"}

C12_AttemptsBounded ==
    /\ Len(mlog) <= 3
    /\ \A i \in 1..(Len(mlog) - 1) : mlog[i] \in RetriedErrors
    /\ (MinioRunning /\ Len(mlog) > 0) =>
          (mlog[Len(mlog)] \in RetriedErrors /\ Len(mlog) < 3)
    /\ mpc = "done" =>
          /\ Len(mlog) >= 1
          /\ mlog[Len(mlog)] = "ok" => mresult = <<"ok">>
          /\ mlog[Len(mlog)] # "ok" =>
                /\ mresult = <<"error", "Minio health check failed">>
                /\ mlog[Len(mlog)] \notin RetriedErrors \/ Len(mlog) = 3

\* C12: the object-store probe makes at most 3 attempts, each attempt but the
\* last having ended in a connection or timeout error (so an HTTP error status
\* or any other error ends it at once); it returns ok when an attempt succeeds
\* and the "Minio health check failed" error otherwise; and every probe that
\* has started returns.
C12_MinioProbeBoundedAndTerminates ==
    []C12_AttemptsBounded /\ (MinioRunning ~> (mpc = "done"))

\* C12 witness: three attempts, none connected, the error returned after two
\* waits
C12_Witness ==
    /\ mpc = "done"
    /\ mlog = <<"ConnectError", "TimeoutException", "ConnectError">>
    /\ Len(msleeps) = 2
    /\ mresult = MinioError

(***************************************************************************)
(* C16 - C18: the handlers with requests overlapping (SpecConc)            *)
(***************************************************************************)
DocModules == load_modules(modulesFile)

\* What register_module can have stored for some admitted manifest
IdSuppliedOrName(e) ==
    \E m \in ConcManifests :
        /\ e = [m EXCEPT !.id = e.id]
        /\ e.id = IF m.id = None THEN m.name ELSE m.id

C16_IdsDistinct ==
    \A i, j \in 1..Len(DocModules) :
        DocModules[i].id = DocModules[j].id => i = j

C16_IdsFromManifest ==
    \A i \in 1..Len(DocModules) :
        DocModules[i] = TemplateEntry \/ IdSuppliedOrName(DocModules[i])

DocRuns == load_runs(runsFile)

\* C17: once start_module_run has returned a record, the record is in the
\* runs document with the content returned, whatever requests follow and
\* however they interleave.
C17_ReturnedRecordsStay ==
    \A r \in returned :
        r.runId \in DOMAIN DocRuns /\ DocRuns[r.runId] = r

\* C18: the moduleId of a run record that is written is the id of an entry
\* of the modules document at the moment of the write, also when a
\* delete_module runs between the registry check and the write.
C18_ModuleRegisteredAtWrite ==
    lastWrite # NoWrite => lastWrite.moduleId \in lastWrite.registry

(***************************************************************************)
(* C19: check_postgres and the pool (SpecProbe)                            *)
(***************************************************************************)
InLog(x) == \E i \in 1..Len(plog) : plog[i] = x

\* C19: a probe that found the pool not initialized or closed and reports
\* an error has tried to reopen the pool first, and it reports an error
\* without having run the liveness query only if that reopen failed.
C19_ReopenBeforeError ==
    (/\ ppc = "done"
     /\ plog[1] \in {"none", "closed"}
     /\ presult[1] = "error")
        => /\ InLog("reopened") \/ InLog("reopen failed")
           /\ ~InLog("query") => InLog("reopen failed")

(***************************************************************************)
(* C20: a write that fails (SpecStore)                                     *)
(***************************************************************************)
\* The write of p has failed and is about to leave the locked section
Failed(p) == pcS[p] = "release" /\ call[p].out.kind = "raised"

\* After the except branch: no temporary file, the target as it was when the
\* call took the lock
C20_CleanedUp ==
    \A p \in Procs :
        Failed(p) => /\ tmpf[p] = NoFile
                     /\ disk[call[p].path] = call[p].before

\* The call has ended by raising: the target still as it was, the lock free
C20_Raised ==
    ret.kind = "raised" =>
        /\ disk[ret.path] = ret.raw
        /\ CanAcquire(lockHolder[ret.path])

\* A failure in json.dump or os.replace goes through the except branch to
\* the caller: the call does not end as written
C20_Propagates ==
    \A p \in Procs :
        /\ (pcS[p] = "w_except" /\ pcS'[p] \notin {"w_except", "idle"})
              => Failed(p)'
        /\ (Failed(p) /\ pcS'[p] = "idle" /\ ret'.kind # "crashed")
              => ret'.kind = "raised"

\* C20: when write fails while serializing or renaming, the error reaches
\* the caller, the temporary file is removed, the target file holds what it
\* held before, and the lock is released, so that a later read or write of
\* the path can take it.
C20_FailedWriteLeavesTarget ==
    [](C20_CleanedUp /\ C20_Raised) /\ [][C20_Propagates]_vars

\* A write of a serializable document whose os.replace failed has raised;
\* the target holds the old document and the other process, waiting for the
\* lock of the same path, can now take it
C20_Witness ==
    /\ ret.kind = "raised"
    /\ ret.value = New
    /\ disk[ret.path] = FileOf(Dump(Old))
    /\ \E q \in Procs : pcS[q] = "acquire" /\ call[q].path = ret.path
                        /\ waited[q] > 0

(***************************************************************************)
(* C21, C24, C25: bootstrap and registration, requests overlapping         *)
(***************************************************************************)
\* w leaves the existence check / the bootstrap write in this step
LeavesCheck(w) == wpc[w] = "ensure" /\ wpc'[w] # "ensure"
LeavesSeed(w) == wpc[w] = "seed" /\ wpc'[w] # "seed"

\* C21: _ensure_module_state creates a module-state file it found missing,
\* holding the template's content if the template exists and parses as a
\* list and the empty list in every other case; it writes nothing when it
\* found the file.
C21_BootstrapStep ==
    \A w \in Workers :
        /\ LeavesCheck(w) =>
              /\ modulesFile' = modulesFile
              /\ modulesFile.kind # "absent" => wpc'[w] = "read"
        /\ LeavesSeed(w) =>
              modulesFile' = IF template.kind = "list" THEN template
                             ELSE JList(<<>>)

C21_Bootstrap == [][C21_BootstrapStep]_vars

\* The entries of the document with an id other than id
Others(id) ==
    { DocModules[i] : i \in { j \in 1..Len(DocModules) : DocModules[j].id # id } }

\* w's register_module writes in this step
RegisterWrites(w) == wpc[w] = "register_write" /\ wpc'[w] = "idle"

\* C24: no registration is lost: when a register_module writes the modules
\* document, every manifest that another call has registered under a
\* different id and that is in the document stays in it, in every
\* interleaving of the loads and saves of the two calls.
C24_RegisterKeepsOthersStep ==
    \A w \in Workers :
        RegisterWrites(w) =>
            \A e \in Others(manifest_data(wreq[w].arg).id) :
                \E i \in 1..Len(load_modules(modulesFile')) :
                    load_modules(modulesFile')[i] = e

C24_NoRegistrationLost == [][C24_RegisterKeepsOthersStep]_vars

\* C25: a bootstrap write that finds the module-state file written since its
\* existence check leaves the file's content as it is.
C25_SeedKeepsExistingStep ==
    \A w \in Workers :
        (LeavesSeed(w) /\ modulesFile.kind # "absent") =>
            modulesFile' = modulesFile

C25_BootstrapKeepsExisting == [][C25_SeedKeepsExistingStep]_vars

(***************************************************************************)
(* C27: the frame of register_module (Spec)                                *)
(***************************************************************************)
RECURSIVE OtherEntries(_, _)
\* The entries of a list with an id other than id, in their order
OtherEntries(s, id) ==
    IF s = <<>> THEN <<>>
    ELSE IF Head(s).id = id THEN OtherEntries(Tail(s), id)
    ELSE <<Head(s)>> \o OtherEntries(Tail(s), id)

\* The list register_module loaded, and the list it left
C27_Old == load_modules(ensure_module_state(prev.modules, template))
C27_New == load_modules(modulesFile)

Registered == last.op = "register" /\ last.status = "200"

\* C27: after a successful register_module the document is the entries of
\* the loaded list that have another id, unchanged and in their order,
\* followed by the registered manifest as last entry; the runs document is
\* as it was.
C27_RegisterFrame ==
    Registered =>
        /\ Len(C27_New) >= 1
        /\ C27_New[Len(C27_New)] = last.resp
        /\ SubSeq(C27_New, 1, Len(C27_New) - 1)
              = OtherEntries(C27_Old, last.resp.id)
        /\ runsFile = prev.runs

\* A manifest was registered again with another version while a module with
\* another id was listed after it: the other entry is now first, the new
\* manifest last
C27_Witness ==
    /\ Registered
    /\ Len(C27_Old) = 2 /\ Len(C27_New) = 2
    /\ C27_Old[1].id = last.resp.id /\ C27_Old[1] # last.resp
    /\ C27_New[1] = C27_Old[2]
    /\ runsFile # Absent

(***************************************************************************)
(* C22: what the probes return (SpecProbe)                                 *)
(***************************************************************************)
Statuses == {"ok", "error"}

\* The snapshot _cached_health_check builds from the two probes
Snapshot == [postgres |-> presult, minio |-> mresult]

\* The last attempt of the object-store probe
LastAttempt == mlog[Len(mlog)]

\* C22: however a probe ends - connection failure, protocol error, timeout,
\* HTTP error status or any other exception, pool missing or closed - each
\* probe returns a result with a status, the snapshot of the two has a
\* status for postgres and for minio, and a failure shows only as the
\* verdict "degraded".
C22_ProbesAlwaysReturnStatus ==
    /\ ppc = "done" => presult[1] \in Statuses
    /\ mpc = "done" => /\ mresult[1] \in Statuses
                       /\ mresult = Ok <=> LastAttempt = "ok"
    /\ (ppc = "done" /\ mpc = "done") =>
          /\ system_ready(Snapshot) \in {"ready", "degraded"}
          /\ system_ready(Snapshot) = "degraded"
                <=> (presult[1] = "error" \/ LastAttempt # "ok")

\* The query ended in an exception of no expected class and the object
\* store timed out three times: both probes have returned an error
C22_Witness ==
    /\ ppc = "done" /\ presult = PgOtherError /\ pool = "open"
    /\ mpc = "done" /\ mresult = MinioError
    /\ mlog = <<"TimeoutException", "TimeoutException", "TimeoutException">>

(***************************************************************************)
(* C23, C26: misses of _cached_health_check (SpecHealth)                   *)
(***************************************************************************)
\* c returns from a miss in this step
Finishes(c) == hpc[c] = "minio" /\ hpc'[c] = "idle"

\* No snapshot younger than 5 seconds in the cache
NoneYounger ==
    "health" \in DOMAIN healthCache =>
        clock - healthCache["health"].timestamp >= 5

\* A call that finds no such snapshot goes to the probes
C23_MissProbes ==
    \A c \in HCalls : (Starts(c) /\ NoneYounger) => hpc'[c] = "postgres"

\* What was returned from the cache was less than 5 seconds old
C23_NoStaleHit ==
    \A c \in HCalls :
        (Returned_(c) /\ hdone[c].probes = 0) =>
            (hdone[c].age >= 0 /\ hdone[c].age < 5)

\* The miss has invoked both probes, returns their results and stores them
\* under the given timestamp
StoresWith(c, timestamp) ==
    /\ hdone'[c].probes >= 2
    /\ hdone'[c].result.postgres \in {Ok, PgError}
    /\ hdone'[c].result.minio \in {Ok, MinioError}
    /\ healthCache' = CacheOf(hdone'[c].result, timestamp)

C23_StoredAtStoreTime ==
    \A c \in HCalls : Finishes(c) => StoresWith(c, clock)

\* C23 as stated: without a cached snapshot younger than 5 seconds the call
\* invokes both probes, stores their results under the time at which it
\* stores them, and returns them; no snapshot aged 5 seconds or more is
\* returned from the cache.
C23_MissStoresAtCurrentTime ==
    []C23_NoStaleHit /\ [][C23_MissProbes /\ C23_StoredAtStoreTime]_vars

(***************************************************************************)
(* C29: register_module of the copy in the documentation (SpecDocs)        *)
(***************************************************************************)
DocsRegistered == last.op = "docs register" /\ last.status = "200"

DocsModules == docs_load_modules(modulesFile)

\* C29: after register_module of the copy the id stored with the manifest is
\* the id the upsert filtered by - the supplied id, or the name when the id
\* is not there, null or empty - so that registering a manifest again leaves
\* one entry for it.
C29_DocsStoredIdIsFilterId ==
    DocsRegistered =>
        /\ DocsModules[Len(DocsModules)].id
              = Or(Get(last.req.id), last.req.name)
        /\ \A i, j \in 1..Len(DocsModules) :
              DocsModules[i] = DocsModules[j] => i = j

\* c is inside the probes, or has returned from them
Probing(c) == hpc[c] # "idle"
Probed(c) == Probing(c) \/ (Returned_(c) /\ hdone[c].probes > 0)

\* When the call of c that went to the probes was made
ProbedAt(c) == IF Probing(c) THEN hloc[c].now ELSE hdone[c].now

\* C26: within one process the probes are invoked at most once per 5-second
\* window: two calls that went to the probes were made 5 seconds or more
\* apart, also when the second arrives while the first is suspended inside
\* a probe.
C26_OneProbeRoundPerWindow ==
    \A c, d \in HCalls :
        (c # d /\ Probed(c) /\ Probed(d)) =>
            \/ ProbedAt(c) - ProbedAt(d) >= 5
            \/ ProbedAt(d) - ProbedAt(c) >= 5

(***************************************************************************)
(* C30: the waits between attempts of the object-store probe (SpecProbe)   *)
(***************************************************************************)
MaxAttemptNumber == 6

\* 2^(n-1) clamped to 1..10
Clamped(n) ==
    IF 2 ^ (n - 1) > 10 THEN 10 ELSE IF 2 ^ (n - 1) < 1 THEN 1 ELSE 2 ^ (n - 1)

\* The wait as a function of the attempt number: 1, 2, 4, 8, 10, 10, ...
C30_WaitFunction ==
    \A n \in 1..MaxAttemptNumber :
        /\ wait_exponential(n) = Clamped(n)
        /\ wait_exponential(n) >= 1 /\ wait_exponential(n) <= 10
        /\ n > 1 => wait_exponential(n) >= wait_exponential(n - 1)

\* The waits a run of the probe has made: one after each failed attempt that
\* is followed by another, none after the third
C30_WaitsMade ==
    /\ \A i \in 1..Len(msleeps) : msleeps[i] = Clamped(i)
    /\ Len(msleeps) <= 2
    /\ mpc \in {"attempt", "sleep"} => Len(msleeps) = Len(mlog)
    /\ mpc = "done" => Len(msleeps) = Len(mlog) - 1

\* C30: the wait after failed attempt n of the object-store probe is 2^(n-1)
\* clamped to [1, 10]: 1 after the first attempt, 2 after the second, never
\* more than 10, and no wait follows the third attempt.
C30_ExponentialBackoff == C30_WaitFunction /\ C30_WaitsMade

\* Three attempts failed to connect: the probe waited 1, then 2, and
\* returned the error without a third wait
C30_Witness ==
    /\ mpc = "done" /\ mresult = MinioError
    /\ mlog = <<"ConnectError", "ConnectError", "ConnectError">>
    /\ msleeps = <<1, 2>>

(***************************************************************************)
(* C28: the teardown of the lifespan (SpecProbeLive)                       *)
(***************************************************************************)
\* The order of the teardown: what each phase finds done
C28_TeardownOrder ==
    /\ lphase = "event_set" => (httpClient = "open" /\ pool # "none")
    /\ lphase = "client_closed" => (httpClient = "none" /\ pool # "none")
    /\ lphase \in {"down", "exited"} => (httpClient = "none" /\ pool = "none")

\* The phases follow each other in this order only
C28_PhaseStep ==
    lphase' # lphase =>
        <<lphase, lphase'>> \in { <<"import", "pooled">>, <<"pooled", "serving">>,
                                  <<"serving", "event_set">>,
                                  <<"event_set", "client_closed">>,
                                  <<"client_closed", "down">>,
                                  <<"down", "exited">> }

\* A health check made after the teardown: the pool was found cleared, the
\* object store is asked through a client of its own; both return a status
C28_ProbesAfterTeardown ==
    /\ (ppc = "done" /\ plog[1] = "none") => presult = PoolNotInitialized
    /\ (mpc = "done" /\ mclient = "fallback") => mresult \in {Ok, MinioError}

\* C28: on shutdown the event is set first, then the HTTP client and then
\* the pool are closed and their handles cleared, the grace period runs only
\* after that and the lifespan returns after it; a health check made after
\* the teardown returns a snapshot.
C28_TeardownThenGrace ==
    /\ [](C28_TeardownOrder /\ C28_ProbesAfterTeardown)
    /\ [][C28_PhaseStep]_vars
    /\ (lphase = "event_set") ~> (lphase = "exited")

\* The lifespan has returned; a health check started during the grace
\* period found no pool and no client and returned a snapshot
C28_Witness ==
    /\ lphase = "exited"
    /\ ppc = "done" /\ plog = <<"none">> /\ presult = PoolNotInitialized
    /\ mpc = "done" /\ mclient = "fallback" /\ mresult = Ok

====
